---- MODULE Spec2Model ----
(***************************************************************************)
(* A model of the zksfs algebraic core: FieldElement (field.rs),           *)
(* Polynomial (polynomial.rs), the R1CS layer (circuit.rs) and the QAP     *)
(* transform (qap.rs).                                                     *)
(*                                                                         *)
(* Every Rust function returning Result<T, ZKError> is an operator that    *)
(* returns a record [kind, val, err]: kind "Ok" carries val, kind "Err"    *)
(* carries the ZKError variant in err, and kind "Panic" is an abort        *)
(* (an unwrap on Err, an index out of range, an arithmetic overflow in a   *)
(* build with overflow checks).                                            *)
(***************************************************************************)
EXTENDS Integers, Sequences, FiniteSets, TLC

VARIABLES
    build,  \* "debug": overflow checks on (overflow panics); "release": u64 wraps
    fa,     \* FieldElement operand a
    fb,     \* FieldElement operand b
    fop,    \* the FieldElement call chain evaluated last
    fe1,    \* exponent of the first exp call of the chain
    fe2,    \* exponent of the second exp call of the chain
    fr,     \* Result<FieldElement, ZKError> of the chain
    pp,     \* Polynomial operand (self; the dividend)
    pq,     \* Polynomial operand (other; the divisor)
    pop,    \* the Polynomial call chain evaluated last
    pdiv,   \* Result<(Polynomial, Polynomial), ZKError> of div
    prc,    \* Result<Polynomial, ZKError> of the chain (of div: quotient.mul(other).add(remainder))
    pn,     \* usize returned by degree()
    qm,     \* the modulus the circuit front-end works over
    cs,     \* the ConstraintSystem
    qap,    \* Result<QAP, ZKError> of QAP::create(&cs)
    wit,    \* the witness supplied last
    ev,     \* Result<bool, ZKError> of cs.evaluate(&wit)
    hq,     \* Result<Polynomial, ZKError> of qap.calculate_witness_quotient(&wit)
    allocated, \* the indices the allocate_variable calls returned, in call order
    lc,     \* the terms of a LinearCombination
    lw,     \* the witness handed to LinearCombination::evaluate
    lr,     \* Result<FieldElement, ZKError> of lc.evaluate(&lw)
    ipts,   \* the points handed to interpolate_points
    ipr,    \* Result<Polynomial, ZKError> of interpolate_points(&ipts)
    dquot,  \* quotient_coefficients of the div under way
    drem,   \* remainder of the div under way
    diter,  \* passes of the while loop of div made so far
    dpc,    \* where the div under way is: idle, loop, done, err or panic
    wa,     \* FieldElement operand a, its u64 fields held at full width
    wb,     \* FieldElement operand b, its u64 fields held at full width
    wop,    \* the full-width FieldElement call evaluated last
    wr      \* Result<FieldElement, ZKError> of that call

fieldVars == <<fa, fb, fop, fe1, fe2, fr>>

polyVars == <<pp, pq, pop, pdiv, prc, pn>>

qapVars == <<qm, cs, qap, wit, ev, hq, allocated>>

lcVars == <<lc, lw, lr>>

interpVars == <<ipts, ipr>>

divVars == <<dquot, drem, diter, dpc>>

wideVars == <<wa, wb, wop, wr>>

vars == <<build, fieldVars, polyVars, qapVars, lcVars, interpVars, divVars, wideVars>>

(***************************************************************************)
(* Bounds of the model.                                                    *)
(***************************************************************************)
MaxValue == 7
MaxModulus == 5
MaxExp == 3
MaxCoeff == 2
MaxLen == 3
MaxDivisorLen == 2
MaxPolyModulus == 4
MaxVars == 2
MaxConstraints == 2
MaxQapModulus == 3
MaxWitnessValue == 2
MaxNewLen == 2
MaxNewModulus == 2
MaxNewValue == 1
MaxOpLen == 2
MaxTerms == 2
MaxLcWitness == 2
MaxLcValue == 1
MaxLcModulus == 2
MaxPoints == 3
MaxPointValue == 2
MaxInterpModulus == 3
MaxCorruption == 1
MaxPasses == 5
MaxDomainConstraints == 5
MaxDomainModulus == 3
MaxWideOffset == 1

(***************************************************************************)
(* Program constants.                                                      *)
(***************************************************************************)
WordBits == 64

\* let modulus = 97; in tests::test_qap
ScenarioModulus == 97

Builds == {"debug", "release"}

(***************************************************************************)
(* Results.                                                                *)
(***************************************************************************)
FE(v, m) == [value |-> v, modulus |-> m]

NoFE == FE(0, 0)

Ok(v) == [kind |-> "Ok", val |-> v, err |-> ""]

FErr(e) == [kind |-> "Err", val |-> NoFE, err |-> e]

FPanic == [kind |-> "Panic", val |-> NoFE, err |-> "panic"]

IsOk(r) == r.kind = "Ok"

(***************************************************************************)
(* u64 arithmetic.  2^WordBits mod m, by repeated doubling, so that a      *)
(* wrapped difference can be reduced without leaving small integers.       *)
(***************************************************************************)
RECURSIVE TwoPowMod(_, _)
TwoPowMod(bits, m) ==
    IF bits = 0 THEN 1 % m ELSE (2 * TwoPowMod(bits - 1, m)) % m

\* (x mod 2^WordBits) % m for -2^WordBits < x < 0.
WrappedMod(x, m) == ((x % m) + TwoPowMod(WordBits, m)) % m

\* Rust's % on i64 truncates toward zero: the result has the dividend's sign.
RustRem(x, m) == IF x >= 0 THEN x % m ELSE -((-x) % m)

\* Rust's / on i64 truncates toward zero.
RustDiv(x, m) == IF x >= 0 THEN x \div m ELSE -((-x) \div m)

(***************************************************************************)
(* FieldElement (field.rs).                                                *)
(***************************************************************************)
\* new reducing the value it is given.
Field_new_Reducing(value, modulus) ==
    IF modulus = 0
    THEN FErr("InvalidFieldElement")
    ELSE Ok(FE(value % modulus, modulus))

Field_new(value, modulus) ==
    IF modulus = 0 THEN FErr("InvalidFieldElement") ELSE Ok(FE(value, modulus))

Field_add(self, other) ==
    IF self.modulus # other.modulus
    THEN FErr("InvalidFieldElement")
    ELSE Field_new((self.value + other.value) % self.modulus, self.modulus)

\* Field_sub without the modulus added before the subtraction.
Field_sub_NoModulusAdded(bld, self, other) ==
    IF self.modulus # other.modulus
    THEN FErr("InvalidFieldElement")
    ELSE LET d == self.value - other.value IN
         IF d >= 0
         THEN Field_new(d % self.modulus, self.modulus)
         ELSE IF bld = "debug"
              THEN FPanic
              ELSE Field_new(WrappedMod(d, self.modulus), self.modulus)

Field_sub(bld, self, other) ==
    IF self.modulus # other.modulus
    THEN FErr("InvalidFieldElement")
    ELSE LET d == self.value + self.modulus - other.value IN
         IF d >= 0
         THEN Field_new(d % self.modulus, self.modulus)
         ELSE IF bld = "debug"
              THEN FPanic
              ELSE Field_new(WrappedMod(d, self.modulus), self.modulus)

Field_mul(self, other) ==
    IF self.modulus # other.modulus
    THEN FErr("InvalidFieldElement")
    ELSE Field_new((self.value * other.value) % self.modulus, self.modulus)

\* eegcd(a, b) = <<g, x, y>>
RECURSIVE eegcd(_, _)
eegcd(a, b) ==
    IF a = 0
    THEN <<b, 0, 1>>
    ELSE LET r == eegcd(RustRem(b, a), a) IN
         <<r[1], r[3] - RustDiv(b, a) * r[2], r[2]>>

\* Field_inv taking the other Bezout coefficient of eegcd.
Field_inv_OtherCoefficient(self) ==
    LET m == self.modulus
        r == eegcd(self.value, m)
    IN  IF r[1] # 1
        THEN FErr("InvalidFieldElement")
        ELSE Field_new(RustRem(RustRem(r[3], m) + m, m), self.modulus)

Field_inv(self) ==
    LET v == self.value
        m == self.modulus
        r == eegcd(v, m)
        g == r[1]
        x == r[2]
    IN  IF g # 1
        THEN FErr("InvalidFieldElement")
        ELSE Field_new(RustRem(RustRem(x, m) + m, m), self.modulus)

\* The while loop of exp: <<result, base, exp>> until exp = 0.
RECURSIVE exp_loop(_, _, _)
exp_loop(result, base, e) ==
    IF e = 0
    THEN Ok(result)
    ELSE LET r1 == IF e % 2 = 1 THEN Field_mul(result, base) ELSE Ok(result)
             b1 == Field_mul(base, base)
         IN  IF ~IsOk(r1) THEN r1
             ELSE IF ~IsOk(b1) THEN b1
             ELSE exp_loop(r1.val, b1.val, e \div 2)

\* Field_exp with the accumulator started at the base instead of one.
Field_exp_StartsAtBase(self, exponent) == exp_loop(self, self, exponent)

Field_exp(self, exponent) ==
    LET one == Field_new(1, self.modulus) IN
    IF ~IsOk(one) THEN one ELSE exp_loop(one.val, self, exponent)

(***************************************************************************)
(* FieldElement with its u64 fields at full width (field.rs).  A u64, and  *)
(* the intermediate of one + or *, is a little-endian sequence of Limbs    *)
(* bytes, wide enough for the product of two u64; the operators below are  *)
(* the machine's +, -, *, / and % on such numbers.                         *)
(***************************************************************************)
Limbs == 2 * (WordBits \div 8) + 1

\* n * 2^k as a wide number, for 0 <= n < 2^24
Big(n, k) ==
    [i \in 1..Limbs |->
        LET j == i - 1 - (k \div 8) IN
        IF j \in 0..3 THEN ((n * 2 ^ (k % 8)) \div (256 ^ j)) % 256 ELSE 0]

RECURSIVE LinearLimbs(_, _, _, _, _)
LinearLimbs(a, c, b, k, carry) ==
    IF k > Limbs
    THEN <<>>
    ELSE LET t == a[k] + c * b[k] + carry IN
         <<t % 256>> \o LinearLimbs(a, c, b, k + 1, t \div 256)

\* a + c * b for -256 < c < 256 and a + c * b >= 0, carry (or borrow) by limb
BigPlus(a, c, b) == LinearLimbs(a, c, b, 1, 0)

\* a >= b: no limb of a is smaller with every higher limb equal
BigGeq(a, b) ==
    ~ \E k \in 1..Limbs :
        /\ a[k] < b[k]
        /\ \A j \in (k + 1)..Limbs : a[j] = b[j]

RECURSIVE ColumnSum(_, _, _, _)
ColumnSum(a, b, k, i) ==
    IF i > k THEN 0 ELSE a[i] * b[k + 1 - i] + ColumnSum(a, b, k, i + 1)

RECURSIVE MulLimbs(_, _, _, _)
MulLimbs(a, b, k, carry) ==
    IF k > Limbs
    THEN <<>>
    ELSE LET t == ColumnSum(a, b, k, 1) + carry IN
         <<t % 256>> \o MulLimbs(a, b, k + 1, t \div 256)

\* a * b for a, b < 2^WordBits
BigMul(a, b) == MulLimbs(a, b, 1, 0)

\* the largest byte q with q * m <= r, for r < 256 * m
RECURSIVE DigitFrom(_, _, _, _)
DigitFrom(r, m, bit, q) ==
    IF bit < 0
    THEN q
    ELSE LET c == q + 2 ^ bit IN
         IF BigGeq(r, BigPlus(Big(0, 0), c, m))
         THEN DigitFrom(r, m, bit - 1, c)
         ELSE DigitFrom(r, m, bit - 1, q)

\* long division, one byte of the quotient per step from the top limb down
RECURSIVE divmod_loop(_, _, _, _, _)
divmod_loop(a, m, k, r, q) ==
    IF k = 0
    THEN [quotient |-> q, remainder |-> r]
    ELSE LET shifted == <<a[k]>> \o SubSeq(r, 1, Limbs - 1)
             digit == DigitFrom(shifted, m, 7, 0)
             rest == BigPlus(shifted, -digit, m)
         IN  IF digit = 0
             THEN divmod_loop(a, m, k - 1, shifted, q)
             ELSE divmod_loop(a, m, k - 1, rest, [q EXCEPT ![k] = digit])

\* a / m and a % m for m # 0
BigDivMod(a, m) == divmod_loop(a, m, Limbs, Big(0, 0), Big(0, 0))

\* the value is below 2^63: representable in an i64
FitsWord_Signed(x) ==
    /\ \A i \in (WordBits \div 8 + 1)..Limbs : x[i] = 0
    /\ x[WordBits \div 8] < 128

\* the value is below 2^WordBits: representable in a u64
FitsWord(x) == \A i \in (WordBits \div 8 + 1)..Limbs : x[i] = 0

Field_new_u64(value, modulus) ==
    IF modulus = Big(0, 0)
    THEN FErr("InvalidFieldElement")
    ELSE Ok(FE(value, modulus))

\* (self.value + other.value) % self.modulus on u64: the sum panics where
\* overflow is checked and keeps its low WordBits bits elsewhere
Field_add_u64(bld, self, other) ==
    IF self.modulus # other.modulus
    THEN FErr("InvalidFieldElement")
    ELSE LET sum == BigPlus(self.value, 1, other.value)
             wrapped == [i \in 1..Limbs |-> IF i <= WordBits \div 8 THEN sum[i] ELSE 0]
         IN  IF ~FitsWord(sum) /\ bld = "debug"
             THEN FPanic
             ELSE Field_new_u64(BigDivMod(wrapped, self.modulus).remainder,
                                self.modulus)

\* (self.value * other.value) % self.modulus on u64: the product panics where
\* overflow is checked and keeps its low WordBits bits elsewhere
Field_mul_u64(bld, self, other) ==
    IF self.modulus # other.modulus
    THEN FErr("InvalidFieldElement")
    ELSE LET product == BigMul(self.value, other.value)
             wrapped == [i \in 1..Limbs |-> IF i <= WordBits \div 8 THEN product[i] ELSE 0]
         IN  IF ~FitsWord(product) /\ bld = "debug"
             THEN FPanic
             ELSE Field_new_u64(BigDivMod(wrapped, self.modulus).remainder,
                                self.modulus)

(***************************************************************************)
(* Polynomial (polynomial.rs): coefficients is a sequence of FieldElement, *)
(* coefficients[i + 1] here being coefficients[i] there.                   *)
(***************************************************************************)
NoPoly == <<>>

PErr(e) == [kind |-> "Err", val |-> NoPoly, err |-> e]

PPanic == [kind |-> "Panic", val |-> NoPoly, err |-> "panic"]

\* The ? operator on a sequence of FieldElement results: the first failure.
AllOk(rs) == \A i \in DOMAIN rs : IsOk(rs[i])

FirstNotOk(rs) ==
    rs[CHOOSE i \in DOMAIN rs : ~IsOk(rs[i]) /\ \A j \in 1..(i - 1) : IsOk(rs[j])]

\* The failure r, as the failure of a function returning a Polynomial.
AsPoly(r) == [kind |-> r.kind, val |-> NoPoly, err |-> r.err]

Vals(rs) == [i \in DOMAIN rs |-> rs[i].val]

Zeros(n, modulus) == [i \in 1..n |-> FE(0, modulus)]

Max(a, b) == IF a >= b THEN a ELSE b

\* Some stored coefficient of p has a non-zero value.
NonZeroPoly(p) == \E i \in DOMAIN p : p[i].value # 0

Poly_new(coefficients) ==
    IF Len(coefficients) = 0
    THEN PErr("CircuitError")
    ELSE IF \E i \in DOMAIN coefficients :
                coefficients[i].modulus # coefficients[1].modulus
         THEN PErr("PolynomialError")
         ELSE Ok(coefficients)

\* The while loop of degree, from deg down.
RECURSIVE degree_loop(_, _)
degree_loop(coefficients, deg) ==
    IF deg > 0 /\ coefficients[deg + 1].value = 0
    THEN degree_loop(coefficients, deg - 1)
    ELSE deg

\* degree without the loop over the trailing zero coefficients.
Poly_degree_Length(self) == Len(self) - 1

Poly_degree(self) == degree_loop(self, Len(self) - 1)

\* Horner's loop of evaluate over coefficients[k], k descending.
RECURSIVE horner(_, _, _, _)
horner(coefficients, k, result, fe) ==
    IF k = 0
    THEN Ok(result)
    ELSE LET r1 == Field_mul(result, fe) IN
         IF ~IsOk(r1) THEN r1
         ELSE LET r2 == Field_add(r1.val, coefficients[k]) IN
              IF ~IsOk(r2) THEN r2
              ELSE horner(coefficients, k - 1, r2.val, fe)

Poly_evaluate(self, fe) ==
    IF self[1].modulus # fe.modulus
    THEN FErr("PolynomialError")
    ELSE horner(self, Len(self), FE(0, fe.modulus), fe)

\* coefficients.get(i).cloned().unwrap_or(zero)
Get(coefficients, i, zero) ==
    IF i <= Len(coefficients) THEN coefficients[i] ELSE zero

Poly_add(self, other) ==
    IF self[1].modulus # other[1].modulus
    THEN PErr("PolynomialError")
    ELSE LET max_len == Max(Len(self), Len(other))
             zero == FE(0, self[1].modulus)
             sum == [i \in 1..max_len |->
                        Field_add(Get(self, i, zero), Get(other, i, zero))]
         IN  IF AllOk(sum) THEN Poly_new(Vals(sum)) ELSE AsPoly(FirstNotOk(sum))

Poly_sub(bld, self, other) ==
    IF self[1].modulus # other[1].modulus
    THEN PErr("PolynomialError")
    ELSE LET max_len == Max(Len(self), Len(other))
             zero == FE(0, self[1].modulus)
             diff == [i \in 1..max_len |->
                        Field_sub(bld, Get(self, i, zero), Get(other, i, zero))]
         IN  IF AllOk(diff) THEN Poly_new(Vals(diff)) ELSE AsPoly(FirstNotOk(diff))

\* product[i + j] after the loops of mul: the products self[i] * other[j] with
\* i + j = ij (counted from 1 here) added to acc, for i ascending from i on.
RECURSIVE mul_accumulate(_, _, _, _, _)
mul_accumulate(self, other, ij, i, acc) ==
    IF i > Len(self)
    THEN acc
    ELSE IF ij - i < 1 \/ ij - i > Len(other)
         THEN mul_accumulate(self, other, ij, i + 1, acc)
         ELSE mul_accumulate(self, other, ij, i + 1,
                  Field_add(acc, Field_mul(self[i], other[ij - i]).val).val)

\* mul with the products accumulated one coefficient too low.
Poly_mul_ShiftedDown(self, other) ==
    IF self[1].modulus # other[1].modulus
    THEN PErr("PolynomialError")
    ELSE LET n == Len(self)
             m == Len(other)
             modulus == self[1].modulus
         IN  Poly_new([k \in 1..(n + m - 1) |->
                 mul_accumulate(self, other, k + 2, 1, FE(0, modulus))])

Poly_mul(self, other) ==
    IF self[1].modulus # other[1].modulus
    THEN PErr("PolynomialError")
    ELSE LET n == Len(self)
             m == Len(other)
             modulus == self[1].modulus
         IN  IF \E i \in 1..n, j \in 1..m :
                    \/ self[i].modulus # other[j].modulus
                    \/ self[i].modulus # modulus
             THEN PErr("InvalidFieldElement")
             ELSE Poly_new([k \in 1..(n + m - 1) |->
                      mul_accumulate(self, other, k + 1, 1, FE(0, modulus))])

Poly_scale(self, scalar) ==
    LET scaled == [i \in DOMAIN self |-> Field_mul(self[i], scalar)] IN
    IF AllOk(scaled) THEN Poly_new(Vals(scaled)) ELSE PPanic

\* (quotient, remainder), and the failure of a function returning that pair.
QR(q, r) == [quotient |-> q, remainder |-> r]

DErr(r) == [kind |-> r.kind, val |-> QR(NoPoly, NoPoly), err |-> r.err]

DPanic == [kind |-> "Panic", val |-> QR(NoPoly, NoPoly), err |-> "panic"]

\* One pass of the while loop of div and the passes after it, from the
\* quotient coefficients and the remainder reached so far.
RECURSIVE div_loop(_, _, _, _)
div_loop(bld, quotient_coefficients, remainder, other) ==
    IF /\ Poly_degree(remainder) >= Poly_degree(other)
       /\ Len(remainder) > 0
       /\ remainder[Poly_degree(remainder) + 1].value # 0
    THEN LET modulus == remainder[1].modulus
             deg_diff == Poly_degree(remainder) - Poly_degree(other)
             lead_dividend == remainder[Poly_degree(remainder) + 1]
             lead_divisor == other[Poly_degree(other) + 1]
             inverse == Field_inv(lead_divisor)
             factor == Field_mul(lead_dividend, inverse.val)
             factor_poly == Poly_new(Append(Zeros(deg_diff, modulus), factor.val))
             updated == Field_add(quotient_coefficients[deg_diff + 1], factor.val)
             subtrahend == Poly_mul(factor_poly.val, other)
             difference == Poly_sub(bld, remainder, subtrahend.val)
         IN  IF ~IsOk(inverse) THEN DErr(inverse)
             ELSE IF ~IsOk(factor) THEN DErr(factor)
             ELSE IF ~IsOk(factor_poly) THEN DErr(factor_poly)
             ELSE IF deg_diff + 1 > Len(quotient_coefficients) THEN DPanic
             ELSE IF ~IsOk(updated) THEN DErr(updated)
             ELSE IF ~IsOk(subtrahend) THEN DErr(subtrahend)
             ELSE IF ~IsOk(difference) THEN DErr(difference)
             ELSE div_loop(bld,
                           [quotient_coefficients EXCEPT ![deg_diff + 1] = updated.val],
                           difference.val, other)
    ELSE LET quotient == Poly_new(quotient_coefficients) IN
         IF ~IsOk(quotient) THEN DErr(quotient)
         ELSE Ok(QR(quotient.val, remainder))

\* div with the remainder of the loop thrown away for a zero remainder.
Poly_div_RemainderDropped(bld, self, other) ==
    LET modulus == self[1].modulus IN
    IF modulus # other[1].modulus
    THEN DErr(PErr("PolynomialError"))
    ELSE LET quotient_size ==
                 Max(Poly_degree(self) - Poly_degree(other), 0) + 1
             looped == div_loop(bld, Zeros(quotient_size, modulus), self, other)
         IN  IF ~IsOk(looped) THEN looped
             ELSE Ok(QR(looped.val.quotient, <<FE(0, modulus)>>))

Poly_div(bld, self, other) ==
    LET modulus == self[1].modulus IN
    IF modulus # other[1].modulus
    THEN DErr(PErr("PolynomialError"))
    ELSE LET quotient_size ==
                 Max(Poly_degree(self) - Poly_degree(other), 0) + 1
         IN  div_loop(bld, Zeros(quotient_size, modulus), self, other)

\* The condition of the while loop of div.
div_continues(remainder, other) ==
    /\ Poly_degree(remainder) >= Poly_degree(other)
    /\ Len(remainder) > 0
    /\ remainder[Poly_degree(remainder) + 1].value # 0

\* What one pass of the while loop of div leaves: the quotient coefficients and
\* the remainder, or the failure that ends the call.
Pass(q, r) == [kind |-> "Ok", quotient_coefficients |-> q, remainder |-> r, err |-> ""]

PassErr(r) ==
    [kind |-> r.kind, quotient_coefficients |-> NoPoly, remainder |-> NoPoly, err |-> r.err]

\* The pass with the factor taken to be the dividend's leading coefficient,
\* the divisor's leading coefficient not inverted.
div_pass_NoInverse(bld, quotient_coefficients, remainder, other) ==
    LET modulus == remainder[1].modulus
        deg_diff == Poly_degree(remainder) - Poly_degree(other)
        lead_dividend == remainder[Poly_degree(remainder) + 1]
        factor == Field_mul(lead_dividend, FE(1, modulus))
        factor_poly == Poly_new(Append(Zeros(deg_diff, modulus), factor.val))
        updated == Field_add(quotient_coefficients[deg_diff + 1], factor.val)
        subtrahend == Poly_mul(factor_poly.val, other)
        difference == Poly_sub(bld, remainder, subtrahend.val)
    IN  IF ~IsOk(factor) THEN PassErr(factor)
        ELSE IF ~IsOk(factor_poly) THEN PassErr(factor_poly)
        ELSE IF deg_diff + 1 > Len(quotient_coefficients) THEN PassErr(PPanic)
        ELSE IF ~IsOk(updated) THEN PassErr(updated)
        ELSE IF ~IsOk(subtrahend) THEN PassErr(subtrahend)
        ELSE IF ~IsOk(difference) THEN PassErr(difference)
        ELSE Pass([quotient_coefficients EXCEPT ![deg_diff + 1] = updated.val],
                  difference.val)

\* The body of the while loop of div.
div_pass(bld, quotient_coefficients, remainder, other) ==
    LET modulus == remainder[1].modulus
        deg_diff == Poly_degree(remainder) - Poly_degree(other)
        lead_dividend == remainder[Poly_degree(remainder) + 1]
        lead_divisor == other[Poly_degree(other) + 1]
        inverse == Field_inv(lead_divisor)
        factor == Field_mul(lead_dividend, inverse.val)
        factor_poly == Poly_new(Append(Zeros(deg_diff, modulus), factor.val))
        updated == Field_add(quotient_coefficients[deg_diff + 1], factor.val)
        subtrahend == Poly_mul(factor_poly.val, other)
        difference == Poly_sub(bld, remainder, subtrahend.val)
    IN  IF ~IsOk(inverse) THEN PassErr(inverse)
        ELSE IF ~IsOk(factor) THEN PassErr(factor)
        ELSE IF ~IsOk(factor_poly) THEN PassErr(factor_poly)
        ELSE IF deg_diff + 1 > Len(quotient_coefficients) THEN PassErr(PPanic)
        ELSE IF ~IsOk(updated) THEN PassErr(updated)
        ELSE IF ~IsOk(subtrahend) THEN PassErr(subtrahend)
        ELSE IF ~IsOk(difference) THEN PassErr(difference)
        ELSE Pass([quotient_coefficients EXCEPT ![deg_diff + 1] = updated.val],
                  difference.val)

(***************************************************************************)
(* The R1CS layer (circuit.rs).  A Term is [index, coefficient], a         *)
(* LinearCombination the sequence of its terms, an R1CSConstraint          *)
(* [a, b, c], a ConstraintSystem [constraints, num_variables].  Variable   *)
(* indices count from 0 as in the source; witness[index] there is          *)
(* witness[index + 1] here.                                                *)
(***************************************************************************)
Term(index, coefficient) == [index |-> index, coefficient |-> coefficient]

R1CSConstraint(a, b, c) == [a |-> a, b |-> b, c |-> c]

CS_new == [constraints |-> <<>>, num_variables |-> 0]

\* The for loop of LinearCombination::evaluate from term k on.
RECURSIVE lc_loop(_, _, _, _)
lc_loop(terms, witness, k, result) ==
    IF k > Len(terms)
    THEN Ok(result)
    ELSE IF terms[k].index >= Len(witness)
         THEN FErr("CircuitError")
         ELSE LET term_value ==
                      Field_mul(terms[k].coefficient, witness[terms[k].index + 1])
                  sum == Field_add(result, term_value.val)
              IN  IF ~IsOk(term_value) THEN term_value
                  ELSE IF ~IsOk(sum) THEN sum
                  ELSE lc_loop(terms, witness, k + 1, sum.val)

\* evaluate stopping after the first term.
LC_evaluate_FirstTermOnly(terms, witness) ==
    IF Len(witness) = 0
    THEN FErr("CircuitError")
    ELSE lc_loop(IF Len(terms) > 1 THEN <<terms[1]>> ELSE terms,
                 witness, 1, FE(0, witness[1].modulus))

LC_evaluate(terms, witness) ==
    IF Len(witness) = 0
    THEN FErr("CircuitError")
    ELSE lc_loop(terms, witness, 1, FE(0, witness[1].modulus))

\* Result<bool, ZKError> of ConstraintSystem::evaluate; at is the position the
\* CircuitError of an unsatisfied constraint reports (-1: none reported).
EvalOk == [kind |-> "Ok", val |-> TRUE, err |-> "", at |-> -1]

EvalErr(r, at) == [kind |-> r.kind, val |-> FALSE, err |-> r.err, at |-> at]

\* The for loop of ConstraintSystem::evaluate from constraint i (from 0) on.
RECURSIVE cs_loop(_, _, _)
cs_loop(constraints, witness, i) ==
    IF i >= Len(constraints)
    THEN EvalOk
    ELSE LET constraint == constraints[i + 1]
             a_val == LC_evaluate(constraint.a, witness)
             b_val == LC_evaluate(constraint.b, witness)
             c_val == LC_evaluate(constraint.c, witness)
             product == Field_mul(a_val.val, b_val.val)
         IN  IF ~IsOk(a_val) THEN EvalErr(a_val, -1)
             ELSE IF ~IsOk(b_val) THEN EvalErr(b_val, -1)
             ELSE IF ~IsOk(c_val) THEN EvalErr(c_val, -1)
             ELSE IF ~IsOk(product) THEN EvalErr(product, -1)
             ELSE IF product.val # c_val.val
                  THEN EvalErr(FErr("CircuitError"), i)
                  ELSE cs_loop(constraints, witness, i + 1)

\* evaluate starting its loop after the first constraint.
CS_evaluate_SkipsFirst(cs_, witness) == cs_loop(cs_.constraints, witness, 1)

CS_evaluate(cs_, witness) == cs_loop(cs_.constraints, witness, 0)

(***************************************************************************)
(* QAP (qap.rs).                                                           *)
(***************************************************************************)
Point(x, y) == [x |-> x, y |-> y]

QAPOf(a, b, c, t) ==
    [a_polynomials |-> a, b_polynomials |-> b, c_polynomials |-> c,
     target_polynomial |-> t]

NoQAP == QAPOf(<<>>, <<>>, <<>>, NoPoly)

QErr(r) == [kind |-> r.kind, val |-> NoQAP, err |-> r.err]

\* The factor (x + point) in place of (x - point).
linear_factor_PlusPoint(point, modulus) ==
    <<FE(point.value % modulus, modulus), FE(1, modulus)>>

\* The linear factor (x - point) built in QAP::create and interpolate_points.
linear_factor(point, modulus) ==
    <<FE((modulus - (point.value % modulus)) % modulus, modulus), FE(1, modulus)>>

\* numerator and denominator of the inner loop of interpolate_points
Fraction(numerator, denominator) ==
    [kind |-> "Ok", numerator |-> numerator, denominator |-> denominator, err |-> ""]

FractionErr(r) ==
    [kind |-> r.kind, numerator |-> NoPoly, denominator |-> NoFE, err |-> r.err]

\* The inner loop of interpolate_points for the outer point i, from j on.
RECURSIVE lagrange_inner(_, _, _, _, _, _)
lagrange_inner(bld, points, i, j, numerator, denominator) ==
    IF j > Len(points)
    THEN Fraction(numerator, denominator)
    ELSE IF i = j
         THEN lagrange_inner(bld, points, i, j + 1, numerator, denominator)
         ELSE LET modulus == points[1].x.modulus
                  numerator_factor == Poly_new(linear_factor(points[j].x, modulus))
                  numerator1 == Poly_mul(numerator, numerator_factor.val)
                  difference == Field_sub(bld, points[i].x, points[j].x)
                  denominator1 == Field_mul(denominator, difference.val)
              IN  IF ~IsOk(numerator_factor) THEN FractionErr(numerator_factor)
                  ELSE IF ~IsOk(numerator1) THEN FractionErr(numerator1)
                  ELSE IF ~IsOk(difference) THEN FractionErr(difference)
                  ELSE IF ~IsOk(denominator1) THEN FractionErr(denominator1)
                  ELSE lagrange_inner(bld, points, i, j + 1,
                                      numerator1.val, denominator1.val)

\* The outer loop of interpolate_points from point i on.
RECURSIVE lagrange_outer(_, _, _, _)
lagrange_outer(bld, points, i, result) ==
    IF i > Len(points)
    THEN Ok(result)
    ELSE LET modulus == points[1].x.modulus
             fraction == lagrange_inner(bld, points, i, 1,
                                        <<FE(1, modulus)>>, FE(1, modulus))
             denominator_inverse == Field_inv(fraction.denominator)
             scaled_y == Field_mul(points[i].y, denominator_inverse.val)
             final_polynomial == Poly_mul(fraction.numerator, <<scaled_y.val>>)
             sum == Poly_add(result, final_polynomial.val)
         IN  IF ~IsOk(fraction) THEN AsPoly(fraction)
             ELSE IF ~IsOk(denominator_inverse) THEN AsPoly(denominator_inverse)
             ELSE IF ~IsOk(scaled_y) THEN AsPoly(scaled_y)
             ELSE IF ~IsOk(final_polynomial) THEN final_polynomial
             ELSE IF ~IsOk(sum) THEN sum
             ELSE lagrange_outer(bld, points, i + 1, sum.val)

interpolate_points(bld, points) ==
    IF Len(points) = 0
    THEN PErr("PolynomialError")
    ELSE lagrange_outer(bld, points, 1, <<FE(0, points[1].x.modulus)>>)

\* terms.iter().find(|term| term.index == i).map(coefficient).unwrap_or(zero)
find_coefficient(terms, i, zero) ==
    IF \E k \in DOMAIN terms : terms[k].index = i
    THEN terms[CHOOSE k \in DOMAIN terms :
                  /\ terms[k].index = i
                  /\ \A l \in 1..(k - 1) : terms[l].index # i].coefficient
    ELSE zero

\* The loop building target_polynomial, from evaluation point k on.
RECURSIVE target_loop(_, _, _, _)
target_loop(evaluation_points, modulus, k, target_polynomial) ==
    IF k > Len(evaluation_points)
    THEN Ok(target_polynomial)
    ELSE LET factor == Poly_new(linear_factor(evaluation_points[k], modulus))
             product == Poly_mul(target_polynomial, factor.val)
         IN  IF ~IsOk(factor) THEN factor
             ELSE IF ~IsOk(product) THEN product
             ELSE target_loop(evaluation_points, modulus, k + 1, product.val)

\* a_points, b_points or c_points of variable i: side picks a, b or c.
points_of(cs_, evaluation_points, modulus, i, side) ==
    [j \in 1..Len(cs_.constraints) |->
        Point(evaluation_points[j],
              find_coefficient(
                  CASE side = "a" -> cs_.constraints[j].a
                    [] side = "b" -> cs_.constraints[j].b
                    [] OTHER -> cs_.constraints[j].c,
                  i, FE(0, modulus)))]

\* The modulus taken from the last constraint's A-side.
working_modulus_LastConstraint(cs_) ==
    LET last == cs_.constraints[Len(cs_.constraints)] IN
    IF Len(last.a) = 0
    THEN cs_.constraints[1].a[1].coefficient.modulus
    ELSE last.a[1].coefficient.modulus

\* cs.constraints[0].a.terms.get(0) ... .coefficient.modulus, once get(0) is Some
working_modulus(cs_) == cs_.constraints[1].a[1].coefficient.modulus

QAP_create(bld, cs_) ==
    LET num_constraints == Len(cs_.constraints) IN
    IF num_constraints = 0
    THEN QErr(PErr("PolynomialError"))
    ELSE IF Len(cs_.constraints[1].a) = 0
    THEN QErr(PErr("PolynomialError"))
    ELSE LET num_variables == cs_.num_variables
             modulus == working_modulus(cs_)
             evaluation_points == [i \in 1..num_constraints |-> FE(i, modulus)]
             target_polynomial ==
                 target_loop(evaluation_points, modulus, 1, <<FE(1, modulus)>>)
             \* interpolations in the order the loop runs them:
             \* a, b, c of variable 0, then a, b, c of variable 1, ...
             sides == <<"a", "b", "c">>
             interpolated ==
                 [k \in 1..(3 * num_variables) |->
                     interpolate_points(bld,
                         points_of(cs_, evaluation_points, modulus,
                                   (k - 1) \div 3, sides[((k - 1) % 3) + 1]))]
             side_polynomials(s) ==
                 [i \in 1..num_variables |-> interpolated[3 * (i - 1) + s].val]
         IN  IF ~IsOk(target_polynomial) THEN QErr(target_polynomial)
             ELSE IF ~AllOk(interpolated) THEN QErr(FirstNotOk(interpolated))
             ELSE Ok(QAPOf(side_polynomials(1), side_polynomials(2),
                           side_polynomials(3), target_polynomial.val))

\* The for loop of aggregate_polynomials from j on (j counts from 1 here).
RECURSIVE aggregate_loop(_, _, _, _)
aggregate_loop(polynomials, witness, j, sum) ==
    IF j > Len(witness)
    THEN Ok(sum)
    ELSE IF j > Len(polynomials)
         THEN PPanic
         ELSE LET scaled == Poly_scale(polynomials[j], witness[j])
                  added == Poly_add(sum, scaled.val)
              IN  IF ~IsOk(scaled) THEN scaled
                  ELSE IF ~IsOk(added) THEN added
                  ELSE aggregate_loop(polynomials, witness, j + 1, added.val)

\* aggregate_polynomials with its loop started after the first variable.
aggregate_polynomials_SkipsFirst(polynomials, witness) ==
    IF Len(witness) = 0
    THEN PPanic
    ELSE aggregate_loop(polynomials, witness, 2, <<FE(0, witness[1].modulus)>>)

\* polynomials is the family the selector picks from.
aggregate_polynomials(polynomials, witness) ==
    IF Len(witness) = 0
    THEN PPanic
    ELSE aggregate_loop(polynomials, witness, 1, <<FE(0, witness[1].modulus)>>)

\* calculate_witness_quotient without the test of the remainder.
calculate_witness_quotient_NoRemainderCheck(bld, self, witness) ==
    LET a_polynomial == aggregate_polynomials(self.a_polynomials, witness)
        b_polynomial == aggregate_polynomials(self.b_polynomials, witness)
        c_polynomial == aggregate_polynomials(self.c_polynomials, witness)
        product == Poly_mul(a_polynomial.val, b_polynomial.val)
        p_polynomial == Poly_sub(bld, product.val, c_polynomial.val)
        division == Poly_div(bld, p_polynomial.val, self.target_polynomial)
    IN  IF ~IsOk(a_polynomial) THEN a_polynomial
        ELSE IF ~IsOk(b_polynomial) THEN b_polynomial
        ELSE IF ~IsOk(c_polynomial) THEN c_polynomial
        ELSE IF ~IsOk(product) THEN product
        ELSE IF ~IsOk(p_polynomial) THEN p_polynomial
        ELSE IF ~IsOk(division) THEN AsPoly(division)
        ELSE Ok(division.val.quotient)

\* calculate_witness_quotient testing only the last stored coefficient of the
\* remainder.
calculate_witness_quotient_ChecksLastCoefficient(bld, self, witness) ==
    LET a_polynomial == aggregate_polynomials(self.a_polynomials, witness)
        b_polynomial == aggregate_polynomials(self.b_polynomials, witness)
        c_polynomial == aggregate_polynomials(self.c_polynomials, witness)
        product == Poly_mul(a_polynomial.val, b_polynomial.val)
        p_polynomial == Poly_sub(bld, product.val, c_polynomial.val)
        division == Poly_div(bld, p_polynomial.val, self.target_polynomial)
    IN  IF ~IsOk(a_polynomial) THEN a_polynomial
        ELSE IF ~IsOk(b_polynomial) THEN b_polynomial
        ELSE IF ~IsOk(c_polynomial) THEN c_polynomial
        ELSE IF ~IsOk(product) THEN product
        ELSE IF ~IsOk(p_polynomial) THEN p_polynomial
        ELSE IF ~IsOk(division) THEN AsPoly(division)
        ELSE IF division.val.remainder[Len(division.val.remainder)].value # 0
             THEN PErr("PolynomialError")
             ELSE Ok(division.val.quotient)

calculate_witness_quotient(bld, self, witness) ==
    LET a_polynomial == aggregate_polynomials(self.a_polynomials, witness)
        b_polynomial == aggregate_polynomials(self.b_polynomials, witness)
        c_polynomial == aggregate_polynomials(self.c_polynomials, witness)
        product == Poly_mul(a_polynomial.val, b_polynomial.val)
        p_polynomial == Poly_sub(bld, product.val, c_polynomial.val)
        division == Poly_div(bld, p_polynomial.val, self.target_polynomial)
    IN  IF ~IsOk(a_polynomial) THEN a_polynomial
        ELSE IF ~IsOk(b_polynomial) THEN b_polynomial
        ELSE IF ~IsOk(c_polynomial) THEN c_polynomial
        ELSE IF ~IsOk(product) THEN product
        ELSE IF ~IsOk(p_polynomial) THEN p_polynomial
        ELSE IF ~IsOk(division) THEN AsPoly(division)
        ELSE IF NonZeroPoly(division.val.remainder) THEN PErr("PolynomialError")
        ELSE Ok(division.val.quotient)

(***************************************************************************)
(* The FieldElement operands a program can construct: FieldElement::new    *)
(* accepts every value with a non-zero modulus and does not reduce it.     *)
(***************************************************************************)
FieldElements == {FE(v, m) : v \in 0..MaxValue, m \in 1..MaxModulus}

\* No FieldElement call is under way.
IdleField ==
    /\ fa = FE(0, 1)
    /\ fb = FE(0, 1)
    /\ fop = "new"
    /\ fe1 = 0
    /\ fe2 = 0
    /\ fr = Ok(fa)

\* No Polynomial call is under way.
IdlePoly ==
    /\ pp = <<FE(0, 1)>>
    /\ pq = <<FE(0, 1)>>
    /\ pop = "new"
    /\ pdiv = [kind |-> "None", val |-> QR(NoPoly, NoPoly), err |-> ""]
    /\ prc = [kind |-> "None", val |-> NoPoly, err |-> ""]
    /\ pn = 0

\* No circuit has been built.
IdleQAP ==
    /\ qm = 1
    /\ cs = CS_new
    /\ qap = [kind |-> "None", val |-> NoQAP, err |-> ""]
    /\ wit = <<>>
    /\ ev = [kind |-> "None", val |-> FALSE, err |-> "", at |-> -1]
    /\ hq = [kind |-> "None", val |-> NoPoly, err |-> ""]
    /\ allocated = <<>>

\* No LinearCombination is being evaluated.
IdleLC ==
    /\ lc = <<>>
    /\ lw = <<>>
    /\ lr = [kind |-> "None", val |-> NoFE, err |-> ""]

\* No div is under way.
IdleDiv ==
    /\ dquot = <<>>
    /\ drem = <<>>
    /\ diter = 0
    /\ dpc = "idle"

\* No full-width FieldElement call has been made.
IdleWide ==
    /\ wa = NoFE
    /\ wb = NoFE
    /\ wop = "none"
    /\ wr = [kind |-> "None", val |-> NoFE, err |-> ""]

\* interpolate_points has not been called.
IdleInterp ==
    /\ ipts = <<>>
    /\ ipr = [kind |-> "None", val |-> NoPoly, err |-> ""]

InitField ==
    /\ build \in Builds
    /\ fa \in FieldElements
    /\ fb \in FieldElements
    /\ fop = "new"
    /\ fe1 = 0
    /\ fe2 = 0
    /\ fr = Ok(fa)
    /\ IdlePoly
    /\ IdleQAP
    /\ IdleLC
    /\ IdleWide
    /\ IdleDiv
    /\ IdleInterp

\* a.add(b)
CallAdd ==
    /\ fop' = "add"
    /\ fr' = Field_add(fa, fb)
    /\ UNCHANGED <<wideVars, divVars, interpVars, lcVars, polyVars, qapVars, build, fa, fb, fe1, fe2>>

\* a.sub(b)
CallSub ==
    /\ fop' = "sub"
    /\ fr' = Field_sub(build, fa, fb)
    /\ UNCHANGED <<wideVars, divVars, interpVars, lcVars, polyVars, qapVars, build, fa, fb, fe1, fe2>>

\* a.mul(b)
CallMul ==
    /\ fop' = "mul"
    /\ fr' = Field_mul(fa, fb)
    /\ UNCHANGED <<wideVars, divVars, interpVars, lcVars, polyVars, qapVars, build, fa, fb, fe1, fe2>>

\* a.inv()
CallInv ==
    /\ fop' = "inv"
    /\ fr' = Field_inv(fa)
    /\ UNCHANGED <<wideVars, divVars, interpVars, lcVars, polyVars, qapVars, build, fa, fb, fe1, fe2>>

\* a.exp(e)
CallExp ==
    \E e \in 0..(2 * MaxExp) :
        /\ fop' = "exp"
        /\ fe1' = e
        /\ fe2' = 0
        /\ fr' = Field_exp(fa, e)
        /\ UNCHANGED <<wideVars, divVars, interpVars, lcVars, polyVars, qapVars, build, fa, fb>>

\* a.add(b).sub(b): the sub applied to the value add returned
CallAddThenSub ==
    /\ fop = "add"
    /\ IsOk(fr)
    /\ fop' = "add.sub"
    /\ fr' = Field_sub(build, fr.val, fb)
    /\ UNCHANGED <<wideVars, divVars, interpVars, lcVars, polyVars, qapVars, build, fa, fb, fe1, fe2>>

\* a.mul(a.inv()): the inverse returned is multiplied with a
CallInvThenMul ==
    /\ fop = "inv"
    /\ IsOk(fr)
    /\ fop' = "inv.mul"
    /\ fr' = Field_mul(fa, fr.val)
    /\ UNCHANGED <<wideVars, divVars, interpVars, lcVars, polyVars, qapVars, build, fa, fb, fe1, fe2>>

\* a.exp(e1).mul(a.exp(e2))
CallExpThenMul ==
    \E e \in 0..MaxExp :
        /\ fop = "exp"
        /\ IsOk(fr)
        /\ fe1 <= MaxExp
        /\ IsOk(Field_exp(fa, e))
        /\ fop' = "exp.mul"
        /\ fe2' = e
        /\ fr' = Field_mul(fr.val, Field_exp(fa, e).val)
        /\ UNCHANGED <<wideVars, divVars, interpVars, lcVars, polyVars, qapVars, build, fa, fb, fe1>>

NextField ==
    \/ CallAdd
    \/ CallSub
    \/ CallMul
    \/ CallInv
    \/ CallExp
    \/ CallAddThenSub
    \/ CallInvThenMul
    \/ CallExpThenMul

SpecField == InitField /\ [][NextField]_vars

(***************************************************************************)
(* The Polynomial operands: Polynomial::new accepts every non-empty        *)
(* coefficient list over one modulus, reduced or not, with or without      *)
(* trailing zero coefficients.                                             *)
(***************************************************************************)
Min(a, b) == IF a <= b THEN a ELSE b

Coefficients(m) == {FE(v, m) : v \in 0..Min(MaxCoeff, m)}

Polynomials(m, max_len) == UNION {[1..n -> Coefficients(m)] : n \in 1..max_len}

InitPoly ==
    /\ build \in Builds
    /\ IdleField
    /\ IdleQAP
    /\ IdleLC
    /\ IdleWide
    /\ IdleDiv
    /\ IdleInterp
    /\ \E m \in 1..MaxPolyModulus :
        /\ pp \in Polynomials(m, MaxLen)
        /\ pq \in Polynomials(m, MaxDivisorLen)
    /\ pop = "new"
    /\ pdiv = [kind |-> "None", val |-> QR(NoPoly, NoPoly), err |-> ""]
    /\ prc = [kind |-> "None", val |-> NoPoly, err |-> ""]
    /\ pn = 0

\* p.div(q)
CallDiv ==
    /\ pop' = "div"
    /\ pdiv' = Poly_div(build, pp, pq)
    /\ UNCHANGED <<wideVars, divVars, interpVars, lcVars, fieldVars, qapVars, build, pp, pq, prc, pn>>

\* quotient.mul(q).add(remainder) on the pair div returned
CallDivThenMulAdd ==
    /\ pop = "div"
    /\ IsOk(pdiv)
    /\ pop' = "div.mul.add"
    /\ prc' = LET product == Poly_mul(pdiv.val.quotient, pq) IN
              IF ~IsOk(product) THEN product
              ELSE Poly_add(product.val, pdiv.val.remainder)
    /\ UNCHANGED <<wideVars, divVars, interpVars, lcVars, fieldVars, qapVars, build, pp, pq, pdiv, pn>>

NextPoly ==
    \/ CallDiv
    \/ CallDivThenMulAdd

SpecPoly == InitPoly /\ [][NextPoly]_vars

(***************************************************************************)
(* div, one pass of its while loop at a time, on dividends of up to MaxLen *)
(* and divisors of up to MaxDivisorLen coefficients over one modulus, the  *)
(* coefficients any values up to MaxCoeff, reduced or not.                 *)
(***************************************************************************)
DivOperands(m, max_len) ==
    UNION {[1..n -> {FE(v, m) : v \in 0..MaxCoeff}] : n \in 1..max_len}

InitDivLoop ==
    /\ build \in Builds
    /\ IdleField
    /\ IdleQAP
    /\ IdleLC
    /\ IdleWide
    /\ IdleInterp
    /\ IdleDiv
    /\ \E m \in 1..MaxPolyModulus :
        /\ pp \in DivOperands(m, MaxLen)
        /\ pq \in DivOperands(m, MaxDivisorLen)
    /\ pop = "new"
    /\ pdiv = [kind |-> "None", val |-> QR(NoPoly, NoPoly), err |-> ""]
    /\ prc = [kind |-> "None", val |-> NoPoly, err |-> ""]
    /\ pn = 0

\* p.div(q) up to the while loop: the moduli compared, remainder = self.clone()
\* and quotient_coefficients = vec![0; quotient_size]
DivEnter ==
    /\ dpc = "idle"
    /\ pop' = "div"
    /\ IF pp[1].modulus # pq[1].modulus
       THEN /\ dpc' = "err"
            /\ pdiv' = DErr(PErr("PolynomialError"))
            /\ UNCHANGED <<dquot, drem>>
       ELSE /\ dpc' = "loop"
            /\ drem' = pp
            /\ dquot' = Zeros(Max(Poly_degree(pp) - Poly_degree(pq), 0) + 1,
                              pp[1].modulus)
            /\ UNCHANGED pdiv
    /\ UNCHANGED <<wideVars, interpVars, lcVars, fieldVars, qapVars, build, pp, pq, prc, pn, diter>>

\* one pass of the while loop
DivPass ==
    /\ dpc = "loop"
    /\ diter < MaxPasses
    /\ div_continues(drem, pq)
    /\ LET pass == div_pass(build, dquot, drem, pq) IN
         IF IsOk(pass)
         THEN /\ dquot' = pass.quotient_coefficients
              /\ drem' = pass.remainder
              /\ UNCHANGED <<dpc, pdiv>>
         ELSE /\ dpc' = IF pass.kind = "Panic" THEN "panic" ELSE "err"
              /\ pdiv' = DErr(pass)
              /\ UNCHANGED <<dquot, drem>>
    /\ diter' = diter + 1
    /\ UNCHANGED <<wideVars, interpVars, lcVars, fieldVars, qapVars, build, pp, pq, pop, prc, pn>>

\* the loop is left: Ok((Polynomial::new(quotient_coefficients)?, remainder))
DivReturn ==
    /\ dpc = "loop"
    /\ ~div_continues(drem, pq)
    /\ LET quotient == Poly_new(dquot) IN
         /\ pdiv' = IF IsOk(quotient) THEN Ok(QR(quotient.val, drem)) ELSE DErr(quotient)
         /\ dpc' = IF IsOk(quotient) THEN "done" ELSE "err"
    /\ UNCHANGED <<wideVars, interpVars, lcVars, fieldVars, qapVars, build, pp, pq, pop, prc, pn,
                   dquot, drem, diter>>

NextDivLoop ==
    \/ DivEnter
    \/ DivPass
    \/ DivReturn

SpecDivLoop == InitDivLoop /\ [][NextDivLoop]_vars

(***************************************************************************)
(* degree, add, sub and mul, on operands of every length up to MaxOpLen    *)
(* whose coefficients are any values up to MaxCoeff, reduced or not.       *)
(***************************************************************************)
OpCoefficients(m) == {FE(v, m) : v \in 0..MaxCoeff}

OpPolynomials(m) == UNION {[1..n -> OpCoefficients(m)] : n \in 1..MaxOpLen}

InitPolyOps ==
    /\ build \in Builds
    /\ IdleField
    /\ IdleQAP
    /\ IdleLC
    /\ IdleWide
    /\ IdleDiv
    /\ IdleInterp
    /\ \E m \in 1..MaxPolyModulus :
        /\ pp \in OpPolynomials(m)
        /\ pq \in OpPolynomials(m)
    /\ pop = "new"
    /\ pdiv = [kind |-> "None", val |-> QR(NoPoly, NoPoly), err |-> ""]
    /\ prc = [kind |-> "None", val |-> NoPoly, err |-> ""]
    /\ pn = 0

\* p.degree()
CallPolyDegree ==
    /\ pop' = "degree"
    /\ pn' = Poly_degree(pp)
    /\ UNCHANGED <<wideVars, divVars, interpVars, lcVars, fieldVars, qapVars, build, pp, pq, pdiv, prc>>

\* p.add(q)
CallPolyAdd ==
    /\ pop' = "add"
    /\ prc' = Poly_add(pp, pq)
    /\ UNCHANGED <<wideVars, divVars, interpVars, lcVars, fieldVars, qapVars, build, pp, pq, pdiv, pn>>

\* p.sub(q)
CallPolySub ==
    /\ pop' = "sub"
    /\ prc' = Poly_sub(build, pp, pq)
    /\ UNCHANGED <<wideVars, divVars, interpVars, lcVars, fieldVars, qapVars, build, pp, pq, pdiv, pn>>

\* p.mul(q)
CallPolyMul ==
    /\ pop' = "mul"
    /\ prc' = Poly_mul(pp, pq)
    /\ UNCHANGED <<wideVars, divVars, interpVars, lcVars, fieldVars, qapVars, build, pp, pq, pdiv, pn>>

NextPolyOps ==
    \/ CallPolyDegree
    \/ CallPolyAdd
    \/ CallPolySub
    \/ CallPolyMul

SpecPolyOps == InitPolyOps /\ [][NextPolyOps]_vars

(***************************************************************************)
(* The constructors.  In this specification fa holds the arguments         *)
(* (value, modulus) handed to FieldElement::new, whatever they are, and pp *)
(* the coefficient list handed to Polynomial::new: empty, over one modulus *)
(* or over several.                                                        *)
(***************************************************************************)
NewCoefficients == {FE(v, m) : v \in 0..MaxNewValue, m \in 1..MaxNewModulus}

CoefficientLists == UNION {[1..n -> NewCoefficients] : n \in 0..MaxNewLen}

InitNew ==
    /\ build \in Builds
    /\ IdleField
    /\ IdlePoly
    /\ IdleQAP
    /\ IdleLC
    /\ IdleWide
    /\ IdleDiv
    /\ IdleInterp

\* FieldElement::new(value, modulus); field elements are constructed before
\* the polynomial is
CallFieldNew ==
    \E value \in 0..MaxValue, modulus \in 0..MaxModulus :
        /\ prc.kind = "None"
        /\ fa' = FE(value, modulus)
        /\ fop' = "new"
        /\ fr' = Field_new(value, modulus)
        /\ UNCHANGED <<wideVars, divVars, interpVars, lcVars, polyVars, qapVars, build, fb, fe1, fe2>>

\* Polynomial::new(coefficients), once
CallPolyNew ==
    \E coefficients \in CoefficientLists :
        /\ prc.kind = "None"
        /\ pp' = coefficients
        /\ pop' = "new"
        /\ prc' = Poly_new(coefficients)
        /\ UNCHANGED <<wideVars, divVars, interpVars, lcVars, fieldVars, qapVars, build, pq, pdiv, pn>>

NextNew ==
    \/ CallFieldNew
    \/ CallPolyNew

SpecNew == InitNew /\ [][NextNew]_vars

(***************************************************************************)
(* LinearCombination::evaluate on combinations of up to MaxTerms terms     *)
(* (add_term accepts any index and any coefficient: indices within and     *)
(* beyond the witness, repeated indices, coefficients over the witness's   *)
(* modulus and over another one) and witnesses of up to MaxLcWitness       *)
(* values over the modulus MaxLcModulus.                                   *)
(***************************************************************************)
LcTerms ==
    {Term(index, FE(value, modulus)) :
        index \in 0..MaxLcWitness,
        value \in 0..MaxLcValue,
        modulus \in {MaxLcModulus, MaxLcModulus + 1}}

LinearCombinations == UNION {[1..n -> LcTerms] : n \in 0..MaxTerms}

LcWitnesses ==
    UNION {[1..n -> {FE(v, MaxLcModulus) : v \in 0..MaxLcValue}] : n \in 0..MaxLcWitness}

InitLC ==
    /\ build \in Builds
    /\ IdleField
    /\ IdlePoly
    /\ IdleQAP
    /\ lc \in LinearCombinations
    /\ lw \in LcWitnesses
    /\ lr = [kind |-> "None", val |-> NoFE, err |-> ""]
    /\ IdleInterp
    /\ IdleDiv
    /\ IdleWide

\* lc.evaluate(&witness)
CallLcEvaluate ==
    /\ lr.kind = "None"
    /\ lr' = LC_evaluate(lc, lw)
    /\ UNCHANGED <<wideVars, divVars, interpVars, fieldVars, polyVars, qapVars, build, lc, lw>>

NextLC == CallLcEvaluate

SpecLC == InitLC /\ [][NextLC]_vars

(***************************************************************************)
(* interpolate_points on every set of up to MaxPoints points over one      *)
(* modulus: x-coordinates distinct or coinciding, reduced or equal to the  *)
(* modulus (as the evaluation point m of QAP::create is when m = modulus). *)
(***************************************************************************)
PointSets(m) ==
    UNION {[1..n -> {Point(FE(x, m), FE(y, m)) :
                        x \in 0..Min(MaxPointValue, m), y \in 0..1}] :
           n \in 0..MaxPoints}

InitInterp ==
    /\ build \in Builds
    /\ IdleField
    /\ IdlePoly
    /\ IdleQAP
    /\ IdleLC
    /\ IdleWide
    /\ IdleDiv
    /\ \E m \in 2..MaxInterpModulus : ipts \in PointSets(m)
    /\ ipr = [kind |-> "None", val |-> NoPoly, err |-> ""]

\* Self::interpolate_points(&points)
CallInterpolate ==
    /\ ipr.kind = "None"
    /\ ipr' = interpolate_points(build, ipts)
    /\ UNCHANGED <<wideVars, divVars, fieldVars, polyVars, qapVars, lcVars, build, ipts>>

NextInterp == CallInterpolate

SpecInterp == InitInterp /\ [][NextInterp]_vars

(***************************************************************************)
(* The circuit front-end: it builds a ConstraintSystem over the modulus qm *)
(* with allocate_variable and add_constraint, calls QAP::create once, and  *)
(* then supplies witnesses to cs.evaluate and calculate_witness_quotient.  *)
(***************************************************************************)
\* The constraints the front-end adds, over variables v0, v1 and one index
\* beyond every allocated variable:
\*   1: v1 * v1 = v0            2: (v0 + v1) * v0 = v1
\*   3: (v0 + v0) * v1 = 2 v1   (v0 twice in one linear combination)
\*   4: () * v0 = ()            (empty combinations)
\*   5: v0 * v1 = v_MaxVars     (an index no allocate_variable call returned)
\*   6: 2 v0 * v0 = v1
ConstraintPool(m) ==
    LET T(i, c) == Term(i, FE(c, m)) IN
    << R1CSConstraint(<<T(1, 1)>>, <<T(1, 1)>>, <<T(0, 1)>>),
       R1CSConstraint(<<T(0, 1), T(1, 1)>>, <<T(0, 1)>>, <<T(1, 1)>>),
       R1CSConstraint(<<T(0, 1), T(0, 1)>>, <<T(1, 1)>>, <<T(1, 2)>>),
       R1CSConstraint(<<>>, <<T(0, 1)>>, <<>>),
       R1CSConstraint(<<T(0, 1)>>, <<T(1, 1)>>, <<T(MaxVars, 1)>>),
       R1CSConstraint(<<T(0, 2)>>, <<T(0, 1)>>, <<T(1, 1)>>) >>

\* The witnesses supplied for n allocated variables over modulus m: every
\* assignment of at most n values (reduced ones, and m itself while within
\* the bound), and one with a value too many.
WitnessValues(m) == {FE(v, m) : v \in 0..Min(MaxWitnessValue, m)}

Witnesses(n, m) ==
    UNION {[1..k -> WitnessValues(m)] : k \in 0..n}
        \cup {[i \in 1..(n + 1) |-> FE(1 % m, m)]}

InitQAP ==
    /\ build \in Builds
    /\ IdleField
    /\ IdlePoly
    /\ qm \in 1..MaxQapModulus
    /\ cs = CS_new
    /\ qap = [kind |-> "None", val |-> NoQAP, err |-> ""]
    /\ wit = <<>>
    /\ ev = [kind |-> "None", val |-> FALSE, err |-> "", at |-> -1]
    /\ hq = [kind |-> "None", val |-> NoPoly, err |-> ""]
    /\ allocated = <<>>
    /\ IdleLC
    /\ IdleWide
    /\ IdleDiv
    /\ IdleInterp

\* allocate_variable returning the index after the increment.
AllocateVariable_ReturnsIncremented ==
    /\ qap.kind = "None"
    /\ cs.num_variables < MaxVars
    /\ cs' = [cs EXCEPT !.num_variables = cs.num_variables + 1]
    /\ allocated' = Append(allocated, cs.num_variables + 1)
    /\ UNCHANGED <<wideVars, divVars, interpVars, lcVars, fieldVars, polyVars, build, qm, qap, wit, ev, hq>>

\* cs.allocate_variable()
AllocateVariable ==
    /\ qap.kind = "None"
    /\ cs.num_variables < MaxVars
    /\ LET var_index == cs.num_variables IN
         /\ cs' = [cs EXCEPT !.num_variables = cs.num_variables + 1]
         /\ allocated' = Append(allocated, var_index)
    /\ UNCHANGED <<wideVars, divVars, interpVars, lcVars, fieldVars, polyVars, build, qm, qap, wit, ev, hq>>

\* cs.add_constraint(constraint)
AddConstraint ==
    \E k \in DOMAIN ConstraintPool(qm) :
        /\ qap.kind = "None"
        /\ Len(cs.constraints) < MaxConstraints
        /\ cs' = [cs EXCEPT !.constraints = Append(cs.constraints, ConstraintPool(qm)[k])]
        /\ UNCHANGED <<wideVars, divVars, interpVars, lcVars, fieldVars, polyVars, build, qm, qap, wit, ev, hq, allocated>>

\* QAP::create(&cs)
Create ==
    /\ qap.kind = "None"
    /\ qap' = QAP_create(build, cs)
    /\ UNCHANGED <<wideVars, divVars, interpVars, lcVars, fieldVars, polyVars, build, qm, cs, wit, ev, hq, allocated>>

\* cs.evaluate(&witness), for the witness the front-end supplies for this
\* proving instance
CallEvaluate ==
    \E w \in Witnesses(cs.num_variables, qm) :
        /\ qap.kind # "None"
        /\ ev.kind = "None"
        /\ wit' = w
        /\ ev' = CS_evaluate(cs, w)
        /\ hq' = [kind |-> "None", val |-> NoPoly, err |-> ""]
        /\ UNCHANGED <<wideVars, divVars, interpVars, lcVars, fieldVars, polyVars, build, qm, cs, qap, allocated>>

\* calculate_witness_quotient leaving the quotient it returns in the QAP's
\* target_polynomial.
CallWitnessQuotient_KeepsQuotient ==
    /\ IsOk(qap)
    /\ ev.kind # "None"
    /\ hq' = calculate_witness_quotient(build, qap.val, wit)
    /\ qap' = IF IsOk(hq')
               THEN [qap EXCEPT !.val.target_polynomial = hq'.val]
               ELSE qap
    /\ UNCHANGED <<wideVars, divVars, interpVars, lcVars, fieldVars, polyVars, build, qm, cs, wit, ev, allocated>>

\* qap.calculate_witness_quotient(&witness), for the witness supplied last
CallWitnessQuotient ==
    /\ IsOk(qap)
    /\ ev.kind # "None"
    /\ hq' = calculate_witness_quotient(build, qap.val, wit)
    /\ UNCHANGED <<wideVars, divVars, interpVars, lcVars, fieldVars, polyVars, build, qm, cs, qap, wit, ev, allocated>>

(***************************************************************************)
(* QAP::create on constraint systems whose coefficients need not share one *)
(* modulus (nothing in Term, add_term or add_constraint checks it): the    *)
(* constraints below mix the modulus m with the modulus m + 1.             *)
(*   1: v0 * v1 = v0 over m                                                *)
(*   2: v0 * v1 = v0, the A-side over m + 1                                *)
(*   3: (v0 + v1) * v0 = v1, the second A-term over m + 1                  *)
(*   4: () * v0 = v0 over m                                                *)
(*   5: v0 * v0 = v0 over m + 1                                            *)
(*   6: (v_MaxVars + v0) * v0 = v0, the first A-term over m + 1            *)
(*   7: v0 * v0 = v0 + v_MaxVars over m + 1, the last C-term over m        *)
(***************************************************************************)
MixedPool(m) ==
    LET T(i, c, n) == Term(i, FE(c, n)) IN
    << R1CSConstraint(<<T(0, 1, m)>>, <<T(1, 1, m)>>, <<T(0, 1, m)>>),
       R1CSConstraint(<<T(0, 1, m + 1)>>, <<T(1, 1, m)>>, <<T(0, 1, m)>>),
       R1CSConstraint(<<T(0, 1, m), T(1, 1, m + 1)>>, <<T(0, 1, m)>>, <<T(1, 1, m)>>),
       R1CSConstraint(<<>>, <<T(0, 1, m)>>, <<T(0, 1, m)>>),
       R1CSConstraint(<<T(0, 1, m + 1)>>, <<T(0, 1, m + 1)>>, <<T(0, 1, m + 1)>>),
       R1CSConstraint(<<T(MaxVars, 1, m + 1), T(0, 1, m)>>, <<T(0, 1, m)>>, <<T(0, 1, m)>>),
       R1CSConstraint(<<T(0, 1, m + 1)>>, <<T(0, 1, m + 1)>>,
                      <<T(0, 1, m + 1), T(MaxVars, 1, m)>>) >>

\* The constraint systems built from these constraints.
MixedSystems(m) ==
    {[constraints |-> constraints, num_variables |-> n] :
        constraints \in UNION {[1..k -> {MixedPool(m)[i] : i \in DOMAIN MixedPool(m)}] :
                                 k \in 0..MaxConstraints},
        n \in 0..MaxVars}

InitCreate ==
    /\ build \in Builds
    /\ IdleField
    /\ IdlePoly
    /\ IdleLC
    /\ IdleWide
    /\ IdleDiv
    /\ IdleInterp
    /\ qm \in 1..MaxQapModulus
    /\ cs \in MixedSystems(qm)
    /\ allocated = [k \in 1..cs.num_variables |-> k - 1]
    /\ qap = [kind |-> "None", val |-> NoQAP, err |-> ""]
    /\ wit = <<>>
    /\ ev = [kind |-> "None", val |-> FALSE, err |-> "", at |-> -1]
    /\ hq = [kind |-> "None", val |-> NoPoly, err |-> ""]

NextCreate == Create

SpecCreate == InitCreate /\ [][NextCreate]_vars

NextQAP ==
    \/ AllocateVariable
    \/ AddConstraint
    \/ Create
    \/ CallEvaluate
    \/ CallWitnessQuotient

SpecQAP == InitQAP /\ [][NextQAP]_vars

(***************************************************************************)
(* QAP::create on constraint systems over one prime modulus p with up to   *)
(* MaxDomainConstraints constraints, fewer than p, p and more than p: the  *)
(* evaluation points are 1..m, whatever p is.                              *)
(*   1: v0 * v1 = v0      2: (v0 + v1) * v0 = v1      3: () * v0 = ()      *)
(***************************************************************************)
DomainPool(p) ==
    LET T(i, c) == Term(i, FE(c, p)) IN
    << R1CSConstraint(<<T(0, 1)>>, <<T(1, 1)>>, <<T(0, 1)>>),
       R1CSConstraint(<<T(0, 1), T(1, 1)>>, <<T(0, 1)>>, <<T(1, 1)>>),
       R1CSConstraint(<<>>, <<T(0, 1)>>, <<>>) >>

DomainSystems(p) ==
    {[constraints |-> constraints, num_variables |-> n] :
        constraints \in UNION {[1..k -> {DomainPool(p)[i] : i \in DOMAIN DomainPool(p)}] :
                                 k \in 1..MaxDomainConstraints},
        n \in 0..MaxVars}

InitDomain ==
    /\ build \in Builds
    /\ IdleField
    /\ IdlePoly
    /\ IdleLC
    /\ IdleWide
    /\ IdleInterp
    /\ IdleDiv
    /\ qm \in {p \in 2..MaxDomainModulus : \A d \in 2..(p - 1) : p % d # 0}
    /\ cs \in DomainSystems(qm)
    /\ allocated = [k \in 1..cs.num_variables |-> k - 1]
    /\ qap = [kind |-> "None", val |-> NoQAP, err |-> ""]
    /\ wit = <<>>
    /\ ev = [kind |-> "None", val |-> FALSE, err |-> "", at |-> -1]
    /\ hq = [kind |-> "None", val |-> NoPoly, err |-> ""]

NextDomain == Create

SpecDomain == InitDomain /\ [][NextDomain]_vars

(***************************************************************************)
(* tests::test_qap: the circuit of x^3 + x + 5 = 35 over modulus 97, built *)
(* as the test builds it (six allocate_variable calls, then the four       *)
(* constraints in order), QAP::create, and calculate_witness_quotient on   *)
(* the witnesses a prover may supply for it.                               *)
(***************************************************************************)
\* v1*v1 = v2, v1*v2 = v3, (v3 + v1)*v0 = v4, (v4 + 5 v0)*v0 = v5
ScenarioConstraints ==
    LET T(i, c) == Term(i, FE(c, ScenarioModulus)) IN
    << R1CSConstraint(<<T(1, 1)>>, <<T(1, 1)>>, <<T(2, 1)>>),
       R1CSConstraint(<<T(1, 1)>>, <<T(2, 1)>>, <<T(3, 1)>>),
       R1CSConstraint(<<T(3, 1), T(1, 1)>>, <<T(0, 1)>>, <<T(4, 1)>>),
       R1CSConstraint(<<T(4, 1), T(0, 5)>>, <<T(0, 1)>>, <<T(5, 1)>>) >>

\* [v0, v1, v2, v3, v4, v5] for x = 3
ScenarioWitness ==
    [i \in 1..6 |-> FE(<<1, 3, 9, 27, 30, 35>>[i], ScenarioModulus)]

\* The witnesses supplied: the test's witness with one value raised by up to
\* MaxCorruption, every prefix of it (the empty one included), it with a
\* value too many, and it over another modulus.
ScenarioWitnesses ==
    {[ScenarioWitness EXCEPT
         ![i] = FE((ScenarioWitness[i].value + d) % ScenarioModulus, ScenarioModulus)] :
        i \in DOMAIN ScenarioWitness, d \in 0..MaxCorruption}
    \cup {SubSeq(ScenarioWitness, 1, k) : k \in 0..Len(ScenarioWitness)}
    \cup {Append(ScenarioWitness, FE(0, ScenarioModulus))}
    \cup {[i \in DOMAIN ScenarioWitness |->
              FE(ScenarioWitness[i].value, ScenarioModulus + 4)]}

InitScenario ==
    /\ build \in Builds
    /\ IdleField
    /\ IdlePoly
    /\ IdleLC
    /\ IdleWide
    /\ IdleDiv
    /\ IdleInterp
    /\ qm = ScenarioModulus
    /\ cs = CS_new
    /\ qap = [kind |-> "None", val |-> NoQAP, err |-> ""]
    /\ wit = <<>>
    /\ ev = [kind |-> "None", val |-> FALSE, err |-> "", at |-> -1]
    /\ hq = [kind |-> "None", val |-> NoPoly, err |-> ""]
    /\ allocated = <<>>

\* let v0 = cs.allocate_variable(); ... let v5 = cs.allocate_variable();
ScenarioAllocate ==
    /\ qap.kind = "None"
    /\ cs.num_variables < Len(ScenarioWitness)
    /\ LET var_index == cs.num_variables IN
         /\ cs' = [cs EXCEPT !.num_variables = cs.num_variables + 1]
         /\ allocated' = Append(allocated, var_index)
    /\ UNCHANGED <<wideVars, divVars, interpVars, lcVars, fieldVars, polyVars, build, qm, qap, wit, ev, hq>>

\* cs.add_constraint(R1CSConstraint::new(lc_a, lc_b, lc_c)), constraint 1 to 4
ScenarioAddConstraint ==
    /\ qap.kind = "None"
    /\ cs.num_variables = Len(ScenarioWitness)
    /\ Len(cs.constraints) < Len(ScenarioConstraints)
    /\ cs' = [cs EXCEPT !.constraints =
                  Append(cs.constraints, ScenarioConstraints[Len(cs.constraints) + 1])]
    /\ UNCHANGED <<wideVars, divVars, interpVars, lcVars, fieldVars, polyVars, build, qm, qap, wit, ev, hq, allocated>>

\* a witness is supplied: cs.evaluate(&witness)
ScenarioEvaluate ==
    \E w \in ScenarioWitnesses :
        /\ qap.kind # "None"
        /\ wit' = w
        /\ ev' = CS_evaluate(cs, w)
        /\ hq' = [kind |-> "None", val |-> NoPoly, err |-> ""]
        /\ UNCHANGED <<wideVars, divVars, interpVars, lcVars, fieldVars, polyVars, build, qm, cs, qap, allocated>>

NextScenario ==
    \/ ScenarioAllocate
    \/ ScenarioAddConstraint
    \/ Create
    \/ ScenarioEvaluate
    \/ CallWitnessQuotient

SpecScenario == InitScenario /\ [][NextScenario]_vars

(***************************************************************************)
(* FieldElement::add and FieldElement::mul on u64 fields at full width:    *)
(* moduli around 2^32, 2^48, 2^63 and 2^64, and small ones, with reduced   *)
(* operands at both ends of the range 0..modulus-1.                        *)
(***************************************************************************)
WideModuli ==
    {Big(k, 0) : k \in 1..(MaxWideOffset + 1)}
    \cup {BigPlus(Big(1, e), s, Big(d, 0)) :
            e \in {WordBits \div 2, (3 * WordBits) \div 4, WordBits - 1},
            s \in {-1, 1}, d \in 0..MaxWideOffset}
    \cup {BigPlus(Big(1, WordBits), -1, Big(d + 1, 0)) : d \in 0..MaxWideOffset}

\* reduced values of the modulus m
WideValues(m) ==
    {BigPlus(m, -1, Big(e + 1, 0)) :
        e \in {d \in 0..MaxWideOffset : BigGeq(m, Big(d + 1, 0))}}
    \cup {v \in {Big(e, 0) : e \in 0..MaxWideOffset} \cup {Big(1, WordBits \div 2)} :
            ~BigGeq(v, m)}

InitWide ==
    /\ build \in Builds
    /\ IdleField
    /\ IdlePoly
    /\ IdleQAP
    /\ IdleLC
    /\ IdleInterp
    /\ IdleDiv
    /\ \E m \in WideModuli :
         /\ wa \in {FE(v, m) : v \in WideValues(m)}
         /\ wb \in {FE(v, m) : v \in WideValues(m)}
    /\ wop = "none"
    /\ wr = [kind |-> "None", val |-> NoFE, err |-> ""]

CallAddWide ==
    /\ wop = "none"
    /\ wop' = "add"
    /\ wr' = Field_add_u64(build, wa, wb)
    /\ UNCHANGED <<divVars, interpVars, lcVars, fieldVars, polyVars, qapVars, build, wa, wb>>

CallMulWide ==
    /\ wop = "none"
    /\ wop' = "mul"
    /\ wr' = Field_mul_u64(build, wa, wb)
    /\ UNCHANGED <<divVars, interpVars, lcVars, fieldVars, polyVars, qapVars, build, wa, wb>>

NextWide == CallAddWide \/ CallMulWide

SpecWide == InitWide /\ [][NextWide]_vars

(***************************************************************************)
(* Arithmetic the claims are stated in.                                    *)
(***************************************************************************)
\* gcd(a, m) = 1, by the definition of a common divisor (gcd(0, m) = m).
Coprime(a, m) == \A d \in 2..m : ~(a % d = 0 /\ m % d = 0)

Reduced(x) == x.value \in 0..(x.modulus - 1)

(***************************************************************************)
(* C7 as stated: for every field element a (any modulus > 0), a.inv()      *)
(* succeeds iff gcd(a.value, a.modulus) = 1, fails with                    *)
(* InvalidFieldElement otherwise (including a.value = 0), a successful     *)
(* result lies in [0, modulus), and a.mul(a.inv()).value == 1.             *)
(***************************************************************************)
C7_InvAsStated ==
    /\ fop = "inv" =>
        /\ IsOk(fr) <=> Coprime(fa.value, fa.modulus)
        /\ ~IsOk(fr) => (fr.kind = "Err" /\ fr.err = "InvalidFieldElement")
        /\ fa.value = 0 => ~IsOk(fr)
        /\ IsOk(fr) => Reduced(fr.val)
    /\ fop = "inv.mul" => (IsOk(fr) /\ fr.val.value = 1)

(***************************************************************************)
(* C7 as amended: a.inv() succeeds iff gcd(a.value, a.modulus) = 1, fails  *)
(* with InvalidFieldElement otherwise (including a.value = 0 when the      *)
(* modulus is above 1), a successful result lies in [0, modulus), and      *)
(* a.mul(a.inv()).value is 1 reduced modulo the modulus: 1 for every       *)
(* modulus above 1, and 0 for modulus 1, where every element (0 too) has   *)
(* the inverse 0.                                                          *)
(***************************************************************************)
C7_Inv ==
    /\ fop = "inv" =>
        /\ IsOk(fr) <=> Coprime(fa.value, fa.modulus)
        /\ ~IsOk(fr) => (fr.kind = "Err" /\ fr.err = "InvalidFieldElement")
        /\ (fa.value = 0 /\ fa.modulus > 1) => ~IsOk(fr)
        /\ fa.modulus = 1 => (IsOk(fr) /\ fr.val.value = 0)
        /\ IsOk(fr) => (Reduced(fr.val) /\ fr.val.modulus = fa.modulus)
    /\ fop = "inv.mul" =>
        /\ IsOk(fr)
        /\ fr.val = FE(1 % fa.modulus, fa.modulus)

\* an unreduced invertible a has been inverted and multiplied with its inverse
C7_Witness ==
    /\ fop = "inv.mul"
    /\ fa.value > fa.modulus
    /\ fa.modulus > 2
    /\ fr.val.value = 1

C9_ExpAsStated ==
    /\ (fop = "exp" /\ fe1 = 0) => (IsOk(fr) /\ fr.val.value = 1)
    /\ fop = "exp.mul" => fr = Field_exp(fa, fe1 + fe2)

(***************************************************************************)
(* C9 as amended: a.exp(0).value == 1 for every a, and                     *)
(* a.exp(e1 + e2) == a.exp(e1).mul(a.exp(e2)) whenever the modulus is      *)
(* above 1 or e1 + e2 > 0; with modulus 1 and e1 = e2 = 0 the left side    *)
(* has the value 1 and the right side the value 0.                         *)
(***************************************************************************)
C9_Exp ==
    /\ (fop = "exp" /\ fe1 = 0) => (IsOk(fr) /\ fr.val = FE(1, fa.modulus))
    /\ (fop = "exp.mul" /\ (fa.modulus > 1 \/ fe1 + fe2 > 0))
        => (IsOk(fr) /\ fr = Field_exp(fa, fe1 + fe2))
    /\ (fop = "exp.mul" /\ fa.modulus = 1 /\ fe1 + fe2 = 0)
        => (fr.val.value = 0 /\ Field_exp(fa, 0).val.value = 1)

\* two non-zero powers of an unreduced a were multiplied
C9_Witness ==
    /\ fop = "exp.mul"
    /\ fe1 > 1
    /\ fe2 > 0
    /\ fa.value > fa.modulus
    /\ fa.modulus > 2
    /\ fr.val.value > 1

(***************************************************************************)
(* C10: every FieldElement returned by add, sub, mul, inv or exp has its   *)
(* value in [0, modulus), for every operand and every modulus > 0, also    *)
(* for operands constructed with unreduced values.                         *)
(***************************************************************************)
C10_ResultsReduced ==
    (fop \in {"add", "sub", "mul", "inv", "exp"} /\ IsOk(fr)) => Reduced(fr.val)

\* Coefficient i (from 0) of polynomial p as an element of Z_m, zero beyond
\* the stored coefficients.
CoefficientMod(p, i) ==
    IF i + 1 <= Len(p) THEN p[i + 1].value % p[1].modulus ELSE 0

\* p and q are the same polynomial over Z_m: equal coefficients, trailing
\* zero coefficients and unreduced representatives apart.
SamePolynomial(p, q) ==
    /\ p[1].modulus = q[1].modulus
    /\ \A i \in 0..Max(Len(p), Len(q)) : CoefficientMod(p, i) = CoefficientMod(q, i)

\* The largest i with a non-zero coefficient value (0 when there is none).
TrueDegree(p) ==
    IF NonZeroPoly(p)
    THEN CHOOSE i \in 0..(Len(p) - 1) :
            /\ p[i + 1].value # 0
            /\ \A j \in (i + 1)..(Len(p) - 1) : p[j + 1].value = 0
    ELSE 0

(***************************************************************************)
(* C5: for all polynomials p and q over the same modulus for which         *)
(* p.div(q) returns (quotient, remainder), quotient.mul(q).add(remainder)  *)
(* equals p (as a polynomial over the modulus), and whenever remainder is  *)
(* not the zero polynomial its degree() is strictly less than q.degree().  *)
(***************************************************************************)
C5_DivIdentity ==
    /\ (pop = "div" /\ IsOk(pdiv) /\ NonZeroPoly(pdiv.val.remainder))
        => Poly_degree(pdiv.val.remainder) < Poly_degree(pq)
    /\ pop = "div.mul.add" => (IsOk(prc) /\ SamePolynomial(prc.val, pp))

\* a division with a non-zero quotient and a non-zero remainder was recomposed
C5_Witness ==
    /\ pop = "div.mul.add"
    /\ NonZeroPoly(pdiv.val.quotient)
    /\ NonZeroPoly(pdiv.val.remainder)
    /\ Poly_degree(pq) > 0
    /\ Poly_degree(pp) > Poly_degree(pq)

(***************************************************************************)
(* C6: Polynomial::div(other) fails, with error kind PolynomialError,      *)
(* whenever the divisor's leading coefficient (the coefficient at          *)
(* other.degree()) has no modular inverse, including the all-zero divisor. *)
(***************************************************************************)
C6_DivNonInvertibleLead ==
    (pop = "div" /\ ~Coprime(pq[TrueDegree(pq) + 1].value, pq[1].modulus))
        => (pdiv.kind = "Err" /\ pdiv.err = "PolynomialError")

IsPrime(n) == n > 1 /\ \A d \in 2..(n - 1) : n % d # 0

\* The representatives of the elements of Z_m: the reduced ones and m itself.
FieldPoints(m) == {FE(v, m) : v \in 0..m}

\* sum_j (polynomials[j] scaled by w[j]) evaluated at x, for j from j on, as
\* tests::test_qap computes A(x), B(x) and C(x).
RECURSIVE SideAt(_, _, _, _, _)
SideAt(polynomials, w, x, j, acc) ==
    IF j > Len(w)
    THEN acc
    ELSE LET scaled == Poly_scale(polynomials[j], w[j])
             value == Poly_evaluate(scaled.val, x)
             sum == Field_add(acc, value.val)
         IN  SideAt(polynomials, w, x, j + 1, sum.val)

\* The sum of the coefficients the terms give variable i, in Z_m.
RECURSIVE CoefficientOf(_, _, _)
CoefficientOf(terms, i, m) ==
    IF Len(terms) = 0
    THEN FE(0, m)
    ELSE LET rest == CoefficientOf(Tail(terms), i, m) IN
         IF Head(terms).index = i
         THEN FE((Head(terms).coefficient.value + rest.value) % m, m)
         ELSE rest

\* prod over r in 1..n of (x - r), as an integer
RECURSIVE ProductAt(_, _)
ProductAt(x, n) == IF n = 0 THEN 1 ELSE (x - n) * ProductAt(x, n - 1)

(***************************************************************************)
(* C1: for every ConstraintSystem cs that QAP::create accepts (all         *)
(* coefficients over one prime modulus p, constraint count m < p) and      *)
(* every witness w of length cs.num_variables with values in [0, p),       *)
(* calculate_witness_quotient(w) returns a quotient iff cs.evaluate(w)     *)
(* returns Ok; a witness violating a constraint yields the                 *)
(* non-zero-remainder PolynomialError and no h(x).                         *)
(***************************************************************************)
C1_QuotientIffSatisfied ==
    (/\ hq.kind # "None"
     /\ IsPrime(qm)
     /\ Len(cs.constraints) < qm
     /\ Len(wit) = cs.num_variables
     /\ \A i \in DOMAIN wit : Reduced(wit[i]))
    => /\ IsOk(hq) <=> IsOk(ev)
       /\ ~IsOk(ev) => hq = PErr("PolynomialError")

(***************************************************************************)
(* C2: whenever calculate_witness_quotient(w) returns a quotient h, then   *)
(* with A = sum_j w[j]*A_j, B = sum_j w[j]*B_j, C = sum_j w[j]*C_j and     *)
(* t = target_polynomial, A(x)*B(x) - C(x) equals h(x)*t(x) for every      *)
(* field element x, not only at the domain points.                         *)
(***************************************************************************)
C2_QuotientIdentity ==
    IsOk(hq) =>
        \A x \in FieldPoints(qm) :
            LET zero == FE(0, qm)
                a_eval == SideAt(qap.val.a_polynomials, wit, x, 1, zero)
                b_eval == SideAt(qap.val.b_polynomials, wit, x, 1, zero)
                c_eval == SideAt(qap.val.c_polynomials, wit, x, 1, zero)
                p_val == Field_sub(build, Field_mul(a_eval, b_eval).val, c_eval)
                t_val == Poly_evaluate(qap.val.target_polynomial, x)
                h_val == Poly_evaluate(hq.val, x)
            IN  /\ IsOk(p_val) /\ IsOk(t_val) /\ IsOk(h_val)
                /\ p_val = Field_mul(h_val.val, t_val.val)

\* a non-zero quotient was returned for a system of two or more constraints
C2_Witness ==
    /\ IsOk(hq)
    /\ NonZeroPoly(hq.val)
    /\ Len(cs.constraints) >= 2
    /\ Len(wit) = cs.num_variables

(***************************************************************************)
(* C3: after QAP::create(cs) succeeds, for every variable i and every      *)
(* constraint j in 1..m, a_polynomials[i] evaluated at the domain point j  *)
(* equals variable i's coefficient in constraint j's A linear combination  *)
(* (zero when the variable is absent), likewise for b_polynomials and      *)
(* c_polynomials, and each interpolated polynomial has degree at most      *)
(* m - 1.                                                                  *)
(***************************************************************************)
C3_Interpolation ==
    IsOk(qap) =>
        \A i \in 1..cs.num_variables, j \in 1..Len(cs.constraints) :
            LET r == FE(j, qm) IN
            /\ Poly_evaluate(qap.val.a_polynomials[i], r)
                 = Ok(CoefficientOf(cs.constraints[j].a, i - 1, qm))
            /\ Poly_evaluate(qap.val.b_polynomials[i], r)
                 = Ok(CoefficientOf(cs.constraints[j].b, i - 1, qm))
            /\ Poly_evaluate(qap.val.c_polynomials[i], r)
                 = Ok(CoefficientOf(cs.constraints[j].c, i - 1, qm))
            /\ Poly_degree(qap.val.a_polynomials[i]) <= Len(cs.constraints) - 1
            /\ Poly_degree(qap.val.b_polynomials[i]) <= Len(cs.constraints) - 1
            /\ Poly_degree(qap.val.c_polynomials[i]) <= Len(cs.constraints) - 1

(***************************************************************************)
(* C4 as stated: after QAP::create(cs) succeeds with m constraints,        *)
(* target_polynomial equals the product over r in 1..m of (x - r): it      *)
(* evaluates to zero at every domain point, is monic, and its degree       *)
(* equals m.                                                               *)
(***************************************************************************)
C4_TargetAsStated ==
    IsOk(qap) =>
        LET t == qap.val.target_polynomial
            m == Len(cs.constraints)
        IN  /\ \A x \in FieldPoints(qm) :
                  Poly_evaluate(t, x) = Ok(FE(ProductAt(x.value, m) % qm, qm))
            /\ \A r \in 1..m : Poly_evaluate(t, FE(r, qm)) = Ok(FE(0, qm))
            /\ Len(t) = m + 1
            /\ t[m + 1] = FE(1, qm)
            /\ Poly_degree(t) = m

(***************************************************************************)
(* C4 as amended: after QAP::create(cs) succeeds with m constraints,       *)
(* target_polynomial has m + 1 coefficients, agrees with the product over  *)
(* r in 1..m of (x - r) at every x, and is zero at every domain point;     *)
(* for a modulus above 1 it is monic and its degree() equals m; for        *)
(* modulus 1 all its coefficients are zero and its degree() is 0.          *)
(***************************************************************************)
C4_Target ==
    IsOk(qap) =>
        LET t == qap.val.target_polynomial
            m == Len(cs.constraints)
        IN  /\ \A x \in FieldPoints(qm) :
                  Poly_evaluate(t, x) = Ok(FE(ProductAt(x.value, m) % qm, qm))
            /\ \A r \in 1..m : Poly_evaluate(t, FE(r, qm)) = Ok(FE(0, qm))
            /\ Len(t) = m + 1
            /\ qm > 1 => (t[m + 1] = FE(1, qm) /\ Poly_degree(t) = m)
            /\ qm = 1 => (~NonZeroPoly(t) /\ Poly_degree(t) = 0)

\* a QAP over a prime above 2 was created from two or more constraints
C4_Witness ==
    /\ IsOk(qap)
    /\ qm > 2
    /\ Len(cs.constraints) >= 2
    /\ cs.num_variables >= 2

(***************************************************************************)
(* C11: FieldElement::new(value, modulus) fails with InvalidFieldElement   *)
(* if and only if modulus == 0; otherwise it returns an element holding    *)
(* exactly the given value, without reducing it modulo modulus.            *)
(***************************************************************************)
C11_New ==
    fop = "new" =>
        /\ (fr.kind = "Err" /\ fr.err = "InvalidFieldElement") <=> fa.modulus = 0
        /\ fa.modulus # 0 =>
              /\ IsOk(fr)
              /\ fr.val.value = fa.value
              /\ fr.val.modulus = fa.modulus

\* new was given a value above a non-zero modulus
C11_Witness ==
    /\ fop = "new"
    /\ fa.modulus > 1
    /\ fa.value > fa.modulus
    /\ IsOk(fr)

(***************************************************************************)
(* C12: FieldElement add, sub and mul return an InvalidFieldElement error, *)
(* and no value, whenever the two operands have different moduli; they     *)
(* succeed whenever the moduli are equal.                                  *)
(***************************************************************************)
C12_BinaryOps ==
    fop \in {"add", "sub", "mul"} =>
        /\ fa.modulus # fb.modulus => fr = FErr("InvalidFieldElement")
        /\ fa.modulus = fb.modulus => IsOk(fr)

\* The coefficients do not all share one modulus.
MixedModuli(coefficients) ==
    \E i, j \in DOMAIN coefficients : coefficients[i].modulus # coefficients[j].modulus

(***************************************************************************)
(* C13: Polynomial::new(coeffs) fails with error kind PolynomialError when *)
(* coeffs is empty and when the coefficients do not all share one modulus; *)
(* otherwise it succeeds, so every constructed Polynomial is non-empty     *)
(* with a single modulus.                                                  *)
(***************************************************************************)
C13_PolyNew ==
    (pop = "new" /\ prc.kind # "None") =>
        /\ (Len(pp) = 0 \/ MixedModuli(pp)) => prc = PErr("PolynomialError")
        /\ (Len(pp) > 0 /\ ~MixedModuli(pp)) => prc = Ok(pp)
        /\ IsOk(prc) => (Len(prc.val) > 0 /\ ~MixedModuli(prc.val))

(***************************************************************************)
(* C14: Polynomial::degree() returns the highest index whose coefficient   *)
(* is non-zero, and 0 when every coefficient is zero (the all-zero         *)
(* polynomial and any constant both report degree 0); trailing zero        *)
(* coefficients never raise the reported degree.                           *)
(***************************************************************************)
C14_Degree ==
    pop = "degree" =>
        /\ pn \in 0..(Len(pp) - 1)
        /\ NonZeroPoly(pp) =>
              /\ pp[pn + 1].value # 0
              /\ \A i \in (pn + 2)..Len(pp) : pp[i].value = 0
        /\ ~NonZeroPoly(pp) => pn = 0
        /\ Len(pp) = 1 => pn = 0

\* degree() was taken of a polynomial with a non-zero coefficient under a
\* trailing zero coefficient
C14_Witness ==
    /\ pop = "degree"
    /\ Len(pp) >= 2
    /\ pp[Len(pp)].value = 0
    /\ pp[Len(pp) - 1].value # 0
    /\ pn = Len(pp) - 2

\* The value of coefficient i (from 1) of p, zero beyond the stored ones.
ValueAt(p, i) == IF i <= Len(p) THEN p[i].value ELSE 0

(***************************************************************************)
(* C15: for polynomials A and B over one modulus, A.add(B) and A.sub(B)    *)
(* have exactly max(lenA, lenB) coefficients, coefficient i being          *)
(* (a_i + b_i) mod p respectively (a_i - b_i) mod p with missing           *)
(* coefficients taken as zero; trailing zeros are not trimmed.             *)
(***************************************************************************)
C15_AddSub ==
    LET modulus == pp[1].modulus
        max_len == Max(Len(pp), Len(pq))
    IN  /\ pop = "add" =>
              prc = Ok([i \in 1..max_len |->
                          FE((ValueAt(pp, i) + ValueAt(pq, i)) % modulus, modulus)])
        /\ pop = "sub" =>
              prc = Ok([i \in 1..max_len |->
                          FE((ValueAt(pp, i) - ValueAt(pq, i)) % modulus, modulus)])

\* sum over i from i on of p[i] * q[k + 1 - i]: coefficient k (from 1) of the
\* convolution of p and q, as an integer.
RECURSIVE Convolution(_, _, _, _)
Convolution(p, q, k, i) ==
    IF i > Len(p)
    THEN 0
    ELSE ValueAt(p, i) * (IF k + 1 - i >= 1 THEN ValueAt(q, k + 1 - i) ELSE 0)
            + Convolution(p, q, k, i + 1)

(***************************************************************************)
(* C16: for polynomials p and q over one modulus, p.mul(q) is the full     *)
(* convolution with exactly lenP + lenQ - 1 coefficients, and for every    *)
(* field element x of that modulus                                         *)
(* (p.mul(q)).evaluate(x) == p.evaluate(x).mul(q.evaluate(x)).             *)
(***************************************************************************)
C16_Mul ==
    pop = "mul" =>
        LET modulus == pp[1].modulus IN
        /\ prc = Ok([k \in 1..(Len(pp) + Len(pq) - 1) |->
                        FE(Convolution(pp, pq, k, 1) % modulus, modulus)])
        /\ \A x \in FieldPoints(modulus) :
              LET p_val == Poly_evaluate(pp, x)
                  q_val == Poly_evaluate(pq, x)
                  pq_val == Poly_evaluate(prc.val, x)
              IN  /\ IsOk(p_val) /\ IsOk(q_val) /\ IsOk(pq_val)
                  /\ pq_val = Field_mul(p_val.val, q_val.val)

\* two polynomials of two coefficients each, none zero, were multiplied
C16_Witness ==
    /\ pop = "mul"
    /\ IsOk(prc)
    /\ Len(pp) = 2 /\ Len(pq) = 2
    /\ \A i \in 1..2 : pp[i].value # 0 /\ pq[i].value # 0
    /\ pp[1].modulus > 2
    /\ Len(prc.val) = 3
    /\ NonZeroPoly(prc.val)

\* sum over the terms of coefficient * witness[index], as an integer
RECURSIVE TermSum(_, _)
TermSum(terms, witness) ==
    IF Len(terms) = 0
    THEN 0
    ELSE Head(terms).coefficient.value * witness[Head(terms).index + 1].value
            + TermSum(Tail(terms), witness)

\* Some term's index is outside the witness.
OutOfBounds(terms, witness) == \E k \in DOMAIN terms : terms[k].index >= Len(witness)

\* Term k is the first one evaluate cannot add: its index is outside the
\* witness or its coefficient is over another modulus than the witness.
FirstBadTerm(terms, witness, k) ==
    LET Bad(j) == \/ terms[j].index >= Len(witness)
                  \/ terms[j].coefficient.modulus # witness[1].modulus
    IN  k \in DOMAIN terms /\ Bad(k) /\ \A j \in 1..(k - 1) : ~Bad(j)

(***************************************************************************)
(* C17 as stated: LinearCombination::evaluate(witness) fails with          *)
(* CircuitError if the witness is empty or if any term's index is >=       *)
(* witness length; otherwise it returns the sum over all terms of          *)
(* coefficient * witness[index] modulo the modulus (an empty combination   *)
(* evaluates to zero).                                                     *)
(***************************************************************************)
C17_LcEvaluateAsStated ==
    lr.kind # "None" =>
        IF Len(lw) = 0 \/ OutOfBounds(lc, lw)
        THEN lr = FErr("CircuitError")
        ELSE lr = Ok(FE(TermSum(lc, lw) % lw[1].modulus, lw[1].modulus))

(***************************************************************************)
(* C17 as amended: evaluate fails with CircuitError if the witness is      *)
(* empty; otherwise the first term, in order, whose index is >= witness    *)
(* length or whose coefficient is over another modulus than the witness    *)
(* decides: CircuitError for the index, InvalidFieldElement for the        *)
(* modulus; with no such term (in particular for coefficients all over     *)
(* the witness's modulus and indices all within it) it returns the sum     *)
(* over all terms of coefficient * witness[index] modulo the modulus, zero *)
(* for an empty combination.                                               *)
(***************************************************************************)
C17_LcEvaluate ==
    lr.kind # "None" =>
        IF Len(lw) = 0
        THEN lr = FErr("CircuitError")
        ELSE IF \E k \in DOMAIN lc : FirstBadTerm(lc, lw, k)
             THEN LET k == CHOOSE j \in DOMAIN lc : FirstBadTerm(lc, lw, j) IN
                  IF lc[k].index >= Len(lw)
                  THEN lr = FErr("CircuitError")
                  ELSE lr = FErr("InvalidFieldElement")
             ELSE lr = Ok(FE(TermSum(lc, lw) % lw[1].modulus, lw[1].modulus))

\* a combination of two terms over two different witness values was summed
\* to a value that had to be reduced
C17_Witness ==
    /\ IsOk(lr)
    /\ Len(lc) = 2
    /\ lc[1].index # lc[2].index
    /\ TermSum(lc, lw) >= lw[1].modulus

\* The three linear combinations of constraint c have a value under w.
Evaluable(c, w) ==
    /\ Len(w) > 0
    /\ ~OutOfBounds(c.a, w) /\ ~OutOfBounds(c.b, w) /\ ~OutOfBounds(c.c, w)

\* a(w) * b(w) = c(w) in Z_m
Satisfied(c, w, m) ==
    ((TermSum(c.a, w) % m) * (TermSum(c.b, w) % m)) % m = TermSum(c.c, w) % m

\* Constraint c has values under w and a(w) * b(w) # c(w).
Violated(c, w, m) == Evaluable(c, w) /\ ~Satisfied(c, w, m)

\* Constraint j (from 1) is the first that is not both evaluable and satisfied.
FirstFailing(j) ==
    LET Good(i) == Evaluable(cs.constraints[i], wit)
                       /\ Satisfied(cs.constraints[i], wit, qm)
    IN  j \in DOMAIN cs.constraints /\ ~Good(j) /\ \A i \in 1..(j - 1) : Good(i)

(***************************************************************************)
(* C18 as stated: ConstraintSystem::evaluate(witness) checks constraints   *)
(* in insertion order and returns Ok(true) only if a(w)*b(w) = c(w) holds  *)
(* for every constraint; if any constraint is violated it returns a        *)
(* CircuitError that reports the position of the first violated constraint *)
(* in insertion order, and never evaluates later constraints.              *)
(***************************************************************************)
C18_CsEvaluateAsStated ==
    ev.kind # "None" =>
        /\ IsOk(ev) =>
              \A j \in DOMAIN cs.constraints :
                  Evaluable(cs.constraints[j], wit)
                      /\ Satisfied(cs.constraints[j], wit, qm)
        /\ \A j \in DOMAIN cs.constraints :
              (/\ Violated(cs.constraints[j], wit, qm)
               /\ \A i \in 1..(j - 1) : ~Violated(cs.constraints[i], wit, qm))
              => ev = EvalErr(FErr("CircuitError"), j - 1)

(***************************************************************************)
(* C18 as amended: evaluate returns Ok(true) exactly when every            *)
(* constraint, in insertion order, has linear combinations that evaluate   *)
(* and satisfies a(w)*b(w) = c(w); otherwise the first constraint that     *)
(* does not decides, and the result is the one of the system cut after     *)
(* that constraint: a CircuitError reporting that constraint's position    *)
(* (counted from 0) if a(w)*b(w) # c(w), and the CircuitError of           *)
(* LinearCombination::evaluate, which reports no position, if one of its   *)
(* combinations does not evaluate (empty witness, index out of bounds).    *)
(***************************************************************************)
C18_CsEvaluate ==
    ev.kind # "None" =>
        IF \E j \in DOMAIN cs.constraints : FirstFailing(j)
        THEN LET j == CHOOSE i \in DOMAIN cs.constraints : FirstFailing(i) IN
             /\ ev = CS_evaluate([cs EXCEPT !.constraints = SubSeq(cs.constraints, 1, j)], wit)
             /\ IF Violated(cs.constraints[j], wit, qm)
                THEN ev = EvalErr(FErr("CircuitError"), j - 1)
                ELSE ev = EvalErr(FErr("CircuitError"), -1)
        ELSE ev = EvalOk

\* the second constraint was reported as violated after a satisfied first
C18_Witness ==
    /\ ev.kind = "Err"
    /\ ev.at = 1
    /\ Len(cs.constraints) = 2
    /\ Len(wit) = cs.num_variables
    /\ Satisfied(cs.constraints[1], wit, qm)
    /\ Violated(cs.constraints[2], wit, qm)

(***************************************************************************)
(* C19: after any interleaving of allocate_variable and add_constraint     *)
(* calls on a ConstraintSystem, the k-th allocate_variable call returned   *)
(* k-1 (indices strictly increasing, never reused), num_variables equals   *)
(* the number of allocate_variable calls, add_constraint leaves            *)
(* num_variables unchanged, and allocate_variable leaves the constraint    *)
(* sequence unchanged and in insertion order.                              *)
(***************************************************************************)
C19_Allocation ==
    /\ [](/\ \A k \in DOMAIN allocated : allocated[k] = k - 1
          /\ cs.num_variables = Len(allocated))
    /\ [][/\ cs'.constraints # cs.constraints =>
                /\ cs'.num_variables = cs.num_variables
                /\ allocated' = allocated
                /\ Len(cs'.constraints) = Len(cs.constraints) + 1
                /\ SubSeq(cs'.constraints, 1, Len(cs.constraints)) = cs.constraints
          /\ allocated' # allocated =>
                /\ Len(allocated') = Len(allocated) + 1
                /\ cs'.constraints = cs.constraints]_vars

\* two variables were allocated with a constraint added before the second
C19_Witness ==
    /\ allocated = <<0, 1>>
    /\ cs.num_variables = 2
    /\ Len(cs.constraints) = 2
    /\ cs.constraints[1] # cs.constraints[2]
    /\ qap.kind = "None"

\* Every coefficient of polynomial p is over modulus m.
OverModulus(p, m) == \A i \in DOMAIN p : p[i].modulus = m

(***************************************************************************)
(* C20: QAP::create(cs) fails with PolynomialError when cs has no          *)
(* constraints (and when the first constraint's A-side has no terms);      *)
(* otherwise the working modulus of every produced polynomial is the       *)
(* modulus of the first term of the first constraint's A-side.             *)
(***************************************************************************)
C20_Create ==
    qap.kind # "None" =>
        IF Len(cs.constraints) = 0 \/ Len(cs.constraints[1].a) = 0
        THEN qap = QErr(PErr("PolynomialError"))
        ELSE IsOk(qap) =>
                LET modulus == cs.constraints[1].a[1].coefficient.modulus IN
                /\ OverModulus(qap.val.target_polynomial, modulus)
                /\ Len(qap.val.a_polynomials) = cs.num_variables
                /\ Len(qap.val.b_polynomials) = cs.num_variables
                /\ Len(qap.val.c_polynomials) = cs.num_variables
                /\ \A i \in 1..cs.num_variables :
                      /\ OverModulus(qap.val.a_polynomials[i], modulus)
                      /\ OverModulus(qap.val.b_polynomials[i], modulus)
                      /\ OverModulus(qap.val.c_polynomials[i], modulus)

\* a QAP was created from a system whose first A-term is over another modulus
\* than a term after it
C20_Witness ==
    /\ IsOk(qap)
    /\ cs.num_variables >= 1
    /\ Len(cs.constraints) >= 2
    /\ cs.constraints[1].a[1].coefficient.modulus = qm + 1
    /\ \E j \in DOMAIN cs.constraints :
          \E k \in DOMAIN cs.constraints[j].c :
              cs.constraints[j].c[k].coefficient.modulus = qm
    /\ NonZeroPoly(qap.val.a_polynomials[1])

\* prod over j # i of (x_i - x_j), reduced modulo the points' modulus: the
\* denominator interpolate_points accumulates for the outer point i.
RECURSIVE DenominatorOf(_, _, _)
DenominatorOf(points_, i, j) ==
    IF j > Len(points_)
    THEN 1 % points_[1].x.modulus
    ELSE IF j = i
         THEN DenominatorOf(points_, i, j + 1)
         ELSE ((points_[i].x.value - points_[j].x.value)
                  * DenominatorOf(points_, i, j + 1)) % points_[1].x.modulus

(***************************************************************************)
(* C21: Lagrange interpolation (interpolate_points, and QAP::create        *)
(* through it) fails with error kind PolynomialError both on an empty      *)
(* point set and when an accumulated denominator is not invertible (two    *)
(* points whose x-coordinates coincide modulo the modulus).                *)
(***************************************************************************)
C21_InterpolationErrors ==
    ipr.kind # "None" =>
        /\ Len(ipts) = 0 => ipr = PErr("PolynomialError")
        /\ (/\ Len(ipts) > 0
            /\ \E i \in DOMAIN ipts :
                  ~Coprime(DenominatorOf(ipts, i, 1), ipts[1].x.modulus))
           => ipr = PErr("PolynomialError")

\* The ConstraintSystem tests::test_qap builds.
ScenarioSystem ==
    [constraints |-> ScenarioConstraints, num_variables |-> Len(ScenarioWitness)]

\* (p / t) of calculate_witness_quotient for the QAP created and witness w.
ScenarioDivision(w) ==
    LET a_polynomial == aggregate_polynomials(qap.val.a_polynomials, w)
        b_polynomial == aggregate_polynomials(qap.val.b_polynomials, w)
        c_polynomial == aggregate_polynomials(qap.val.c_polynomials, w)
        product == Poly_mul(a_polynomial.val, b_polynomial.val)
        p_polynomial == Poly_sub(build, product.val, c_polynomial.val)
    IN  IF ~IsOk(a_polynomial) THEN DErr(a_polynomial)
        ELSE IF ~IsOk(b_polynomial) THEN DErr(b_polynomial)
        ELSE IF ~IsOk(c_polynomial) THEN DErr(c_polynomial)
        ELSE IF ~IsOk(product) THEN DErr(product)
        ELSE IF ~IsOk(p_polynomial) THEN DErr(p_polynomial)
        ELSE Poly_div(build, p_polynomial.val, qap.val.target_polynomial)

(***************************************************************************)
(* C22: end-to-end scenario over modulus 97 with 6 variables and the 4     *)
(* constraints v1*v1=v2, v1*v2=v3, (v3+v1)*1=v4, (v4+5*v0)*1=v5 and        *)
(* witness [1,3,9,27,30,35]: QAP::create succeeds,                         *)
(* calculate_witness_quotient succeeds with an all-zero remainder, and for *)
(* x in {1,2,3,4,5} A(x)*B(x) - C(x) == h(x)*t(x).                         *)
(***************************************************************************)
C22_Scenario ==
    (cs = ScenarioSystem /\ qap.kind # "None") =>
        /\ IsOk(qap)
        /\ (wit = ScenarioWitness /\ hq.kind # "None") =>
              /\ IsOk(hq)
              /\ IsOk(ScenarioDivision(wit))
              /\ ~NonZeroPoly(ScenarioDivision(wit).val.remainder)
              /\ hq.val = ScenarioDivision(wit).val.quotient
              /\ \A x_val \in 1..5 :
                    LET x == FE(x_val, ScenarioModulus)
                        zero == FE(0, ScenarioModulus)
                        a_eval == SideAt(qap.val.a_polynomials, wit, x, 1, zero)
                        b_eval == SideAt(qap.val.b_polynomials, wit, x, 1, zero)
                        c_eval == SideAt(qap.val.c_polynomials, wit, x, 1, zero)
                        ab_val == Field_mul(a_eval, b_eval)
                        p_val == Field_sub(build, ab_val.val, c_eval)
                        t_val == Poly_evaluate(qap.val.target_polynomial, x)
                        h_val == Poly_evaluate(hq.val, x)
                        recomposed == Field_mul(h_val.val, t_val.val)
                    IN  /\ IsOk(p_val) /\ IsOk(t_val) /\ IsOk(h_val) /\ IsOk(recomposed)
                        /\ p_val.val.value = recomposed.val.value

\* the quotient of the test's witness was returned, and it is not zero
C22_Witness ==
    /\ cs = ScenarioSystem
    /\ wit = ScenarioWitness
    /\ IsOk(hq)
    /\ NonZeroPoly(hq.val)
    /\ Poly_evaluate(hq.val, FE(5, ScenarioModulus)).val.value # 0

\* The test's witness with v5 corrupted to 36.
CorruptedWitness ==
    [ScenarioWitness EXCEPT ![6] = FE(36, ScenarioModulus)]

(***************************************************************************)
(* C23: negative scenario: for the same modulus-97 circuit (6 variables,   *)
(* 4 constraints) with witness [1,3,9,27,30,36],                           *)
(* calculate_witness_quotient returns the non-zero-remainder               *)
(* PolynomialError and no quotient.                                        *)
(***************************************************************************)
C23_CorruptedWitness ==
    (cs = ScenarioSystem /\ wit = CorruptedWitness /\ hq.kind # "None") =>
        /\ hq = PErr("PolynomialError")
        /\ IsOk(ScenarioDivision(wit))
        /\ NonZeroPoly(ScenarioDivision(wit).val.remainder)

\* the corrupted witness was refused by the quotient and by cs.evaluate, which
\* reports the fourth constraint
C23_Witness ==
    /\ cs = ScenarioSystem
    /\ wit = CorruptedWitness
    /\ hq.kind = "Err"
    /\ ev.kind = "Err"
    /\ ev.at = 3

(***************************************************************************)
(* C24: calculate_witness_quotient returns a recoverable result (a         *)
(* quotient or an error value) and never aborts for every witness input:   *)
(* in particular for every witness whose length is >= num_variables        *)
(* (including strictly longer ones), for the empty witness, and for a      *)
(* witness whose elements carry a modulus different from the QAP's (which  *)
(* reaches Polynomial::scale).                                             *)
(***************************************************************************)
C24_NoAbort ==
    hq.kind # "None" => hq.kind \in {"Ok", "Err"}

C26_SubNoUnderflow ==
    (fop = "sub" /\ fa.modulus = fb.modulus) =>
        /\ fa.value + fa.modulus - fb.value >= 0
        /\ fr = Ok(FE((fa.value - fb.value) % fa.modulus, fa.modulus))

(***************************************************************************)
(* C27: Polynomial::div terminates for every dividend and divisor over the *)
(* same modulus: each loop iteration either returns an error or strictly   *)
(* lowers the remainder's degree() (or makes the remainder all-zero), so   *)
(* the loop runs at most dividend.degree() - divisor.degree() + 1 times    *)
(* and every quotient index written (deg_diff) is within the preallocated  *)
(* quotient length.  The bound is read as the preallocated length,         *)
(* degree().saturating_sub(other.degree()) + 1, which is what it is for a  *)
(* dividend of no lower degree than the divisor.                           *)
(***************************************************************************)
C27_DivTerminates ==
    /\ [](dpc # "panic")
    /\ [](diter <= Max(Poly_degree(pp) - Poly_degree(pq), 0) + 1)
    /\ [](dpc = "loop" =>
             /\ Len(dquot) = Max(Poly_degree(pp) - Poly_degree(pq), 0) + 1
             /\ div_continues(drem, pq) =>
                   Poly_degree(drem) - Poly_degree(pq) + 1 \in 1..Len(dquot))
    /\ [][(dpc = "loop" /\ diter' = diter + 1) =>
             \/ dpc' = "err"
             \/ /\ dpc' = "loop"
                /\ \/ Poly_degree(drem') < Poly_degree(drem)
                   \/ ~NonZeroPoly(drem')]_vars

\* a division that took three passes to a non-zero remainder has returned
C27_Witness ==
    /\ dpc = "done"
    /\ diter = 3
    /\ Poly_degree(pq) = 0
    /\ NonZeroPoly(pdiv.val.quotient)
    /\ pq[1].modulus > 2

(***************************************************************************)
(* C28: for a constraint system over a prime modulus p with a non-empty    *)
(* first A-side, QAP::create succeeds whenever the constraint count m      *)
(* satisfies 1 <= m <= p (the domain points 1..m are pairwise distinct     *)
(* modulo p), and it returns an error, not a QAP, whenever m > p (two      *)
(* domain points coincide modulo p).                                       *)
(***************************************************************************)
C28_DomainSize ==
    (/\ qap.kind # "None"
     /\ IsPrime(qm)
     /\ Len(cs.constraints) >= 1
     /\ Len(cs.constraints[1].a) > 0)
    => /\ Len(cs.constraints) <= qm => IsOk(qap)
       /\ Len(cs.constraints) > qm => qap.kind = "Err"

\* C29: with u64 fields and reduced operands of one modulus m, the
\* intermediate value * value of mul stays below 2^64 whenever
\* m <= 2^32 and the intermediate value + value of add whenever m <= 2^63;
\* the call then returns Ok with the value r < m for which the exact product
\* (sum) is q * m + r, that is (a * b) mod m and (a + b) mod m.  For a larger
\* modulus the intermediate of the operands m - 1 and m - 1 is 2^64 or more,
\* and the call panics where overflow is checked.
C29_WordWidth ==
    LET m == wa.modulus
        top == BigPlus(m, -1, Big(1, 0))
        x == IF wop = "mul"
             THEN BigMul(wa.value, wb.value)
             ELSE BigPlus(wa.value, 1, wb.value)
        small == IF wop = "mul"
                 THEN BigGeq(Big(1, WordBits \div 2), m)
                 ELSE BigGeq(Big(1, WordBits - 1), m)
        dm == BigDivMod(x, m)
    IN  wop \in {"add", "mul"} =>
          /\ ~BigGeq(wa.value, m) /\ ~BigGeq(wb.value, m)
          /\ small =>
               /\ FitsWord(x)
               /\ IsOk(wr)
               /\ wr.val.modulus = m
               /\ ~BigGeq(wr.val.value, m)
               /\ BigPlus(BigMul(dm.quotient, m), 1, wr.val.value) = x
          /\ (~small /\ wa.value = top /\ wb.value = top) =>
               /\ ~FitsWord(x)
               /\ build = "debug" => wr = FPanic
               /\ build = "release" => IsOk(wr)

\* mul of 2^32 - 1 by itself under the modulus 2^32 has returned 1.
C29_Witness ==
    /\ wop = "mul"
    /\ wa.modulus = Big(1, WordBits \div 2)
    /\ wa.value = BigPlus(wa.modulus, -1, Big(1, 0))
    /\ wb.value = wa.value
    /\ IsOk(wr)
    /\ wr.val.value = Big(1, 0)

====
